---------------------------- MODULE Spec2Model ----------------------------
(***************************************************************************)
(* Verification model of the devservers operator and client library.       *)
(*                                                                         *)
(* Eleven state machines share this module, each with its own specification: *)
(*   SpecSubset    - the pure function _is_status_subset (crds/base.py)    *)
(*   SpecWait      - BaseCustomResource.wait_for_status (crds/base.py)     *)
(*   SpecReconcile - create_or_update_devserver and the reconciler         *)
(*                   (operator/devserver/handler.py, reconciler.py)        *)
(*   SpecExpire    - the TTL expiration loop (operator/devserver/          *)
(*                   lifecycle.py); FairSpecExpire adds its scheduling     *)
(*   SpecScope     - DevServer used as a context manager and               *)
(*                   BaseCustomResource.delete (crds/devserver.py, base.py)*)
(*   SpecFrame     - the API requests of the expiration sweep and of the   *)
(*                   delete handler (lifecycle.py, handler.py)             *)
(*   SpecVolumeName- _stable_volume_name (resources/deployment.py)         *)
(*   SpecBuild     - build_deployment (resources/deployment.py)            *)
(*   SpecStartup   - OperatorConfig, on_startup and configure_kube_client  *)
(*                   (operator/config.py, operator.py, utils/kube.py)      *)
(*   SpecUser      - the DevServerUser reconciler (specification 4.6)      *)
(*   SpecReady     - DevServer.wait_for_ready (crds/devserver.py)          *)
(* A specification leaves the variables of the other machines unchanged.   *)
(***************************************************************************)
EXTENDS Integers, Sequences, FiniteSets, TLC

VARIABLES
    \* ---- _is_status_subset applied to drawn inputs
    fn_subset, fn_superset, fn_result, fn_done,
    \* ---- wait_for_status: one call of the generator and the cluster it reads
    w_pc,        \* position of the generator
    w_want,      \* the `status` argument
    w_timeout,   \* the `timeout` argument, in clock ticks
    w_start,     \* start_time
    w_now,       \* time.time(), in clock ticks
    w_status,    \* self.status
    w_live,      \* the object as stored in the cluster
    w_deadline,  \* instant at which the open watch stream times out
    w_had,       \* watch_had_events
    w_event,     \* the event the for loop holds
    w_recv,      \* events received from the watch streams, in order
    w_yield,     \* events yielded to the caller, in order
    w_log,       \* operations performed by the call, in order
    w_namespaced,\* the class attribute `namespaced` of the resource
    \* ---- create_or_update_devserver: one DevServer, its handler and children
    r_spec,      \* spec of the DevServer as delivered with the event
    r_flavors,   \* names of the DevServerFlavor objects in the cluster
    r_cluster,   \* child objects of the DevServer that exist in the cluster
    r_pc,        \* position of the handler
    r_i,         \* index of the child being reconciled
    r_writes,    \* writes issued by the current invocation, in order
    r_flavorGet, \* answer of the flavor read of the current invocation
    r_outcome,   \* how the last invocation ended
    r_patch,     \* patch["status"]["phase"] of the current invocation
    r_phase,     \* status.phase stored on the DevServer
    r_env,       \* steps other actors took on the children so far
    r_image,     \* container image of the workload stored in the cluster
    r_start,     \* children and workload image when the invocation began
    r_err,       \* the exception that ended the current invocation
    r_keys,      \* ensure_host_keys_secret in the current invocation
    \* ---- cleanup_expired_devservers: the DevServers and the expiration loop
    x_ds,        \* the DevServer objects, by name
    x_now,       \* datetime.now(timezone.utc), in seconds
    x_pc,        \* position of the loop
    x_tasks,     \* delete coroutines handed to asyncio.gather, not yet finished
    x_erred,     \* some sweep ended with an exception
    x_count,     \* expired_count of the sweep that ran last
    x_ret,       \* how the sweep that ran last ended: its return value
    \* ---- DevServer.__enter__ / __exit__: one wrapper and the object it creates
    c_pc,        \* position of the code that uses the wrapper
    c_ctx,       \* self._context_resource
    c_obj,       \* the DevServer object exists in the cluster
    c_timeout,   \* self.wait_timeout of the wrapper
    c_created,   \* wait_timeout of the instance create() returned
    c_waited,    \* timeout argument of the last wait_for_ready call
    c_log,       \* calls made for the current scope, in order
    c_result,    \* how the last __enter__ or __exit__ ended
    c_answer,    \* what the delete call of the last __exit__ met
    c_bodyExc,   \* the body of the last scope ended with an exception
    c_attempts,  \* calls of __enter__ so far
    c_creates,   \* create calls made by __enter__ so far
    c_entered,   \* calls of __enter__ that returned the resource
    c_direct,    \* how the last direct call of delete() ended
    \* ---- requests of the sweep and the delete handler, and what they touch
    f_calls,     \* API requests issued by the sweep and the delete handler
    f_pvcs,      \* DevServers whose user-managed PersistentVolumeClaim exists
    f_kids,      \* DevServers whose workload exists
    f_handled,   \* DevServers for which delete_devserver has run
    \* ---- _stable_volume_name applied to drawn inputs
    n_claim, n_path, n_name, n_done,
    \* ---- build_deployment applied to drawn inputs
    b_spec, b_flavor, b_out, b_done,
    \* ---- the operator process at startup
    s_env,       \* os.environ, by configuration key
    s_file,      \* the config file
    s_kube,      \* credentials the machine offers to the client loaders
    s_pc,        \* position of the process
    s_cfg,       \* the OperatorConfig instance
    s_mod,       \* the interval constants of operator.py
    s_tried,     \* loaders on_startup called, in order
    s_client,    \* source of the client configuration on_startup obtained
    s_settings,  \* settings.batching.worker_limit and settings.posting.enabled
    s_tasks,     \* background tasks on_startup created
    s_lib,       \* one call of configure_kube_client
    \* ---- DevServerUserReconciler.reconcile for one DevServerUser
    u_name,      \* spec.username
    u_cluster,   \* the objects of the user that exist in the cluster
    u_start,     \* kinds of the objects that existed when the reconcile began
    u_calls,     \* API calls of the reconcile, in order
    u_pc,        \* position of the reconcile
    u_result,    \* the result the reconcile returns
    \* ---- DevServer.wait_for_ready: one call, on top of wait_for_status
    g_pc,        \* position of the call
    g_timeout,   \* the `timeout` argument, in clock ticks
    g_start,     \* start
    g_pod,       \* what a read of the pod <name>-0 answers
    g_slept,     \* instant at which time.sleep(1) began
    g_reads      \* answers of the pod reads of the call, with their instants

fnVars == <<fn_subset, fn_superset, fn_result, fn_done>>
waitVars == <<w_pc, w_want, w_timeout, w_start, w_now, w_status, w_live,
              w_deadline, w_had, w_event, w_recv, w_yield, w_log, w_namespaced>>
recVars == <<r_spec, r_flavors, r_cluster, r_pc, r_i, r_writes, r_flavorGet,
             r_outcome, r_patch, r_phase, r_env, r_image, r_start, r_err, r_keys>>
expVars == <<x_ds, x_now, x_pc, x_tasks, x_erred, x_count, x_ret>>
scopeVars == <<c_pc, c_ctx, c_obj, c_timeout, c_created, c_waited, c_log, c_result,
               c_answer, c_bodyExc, c_attempts, c_creates, c_entered, c_direct>>
frameVars == <<f_calls, f_pvcs, f_kids, f_handled>>
vnameVars == <<n_claim, n_path, n_name, n_done>>
buildVars == <<b_spec, b_flavor, b_out, b_done>>
startVars == <<s_env, s_file, s_kube, s_pc, s_cfg, s_mod, s_tried, s_client,
               s_settings, s_tasks, s_lib>>
userVars == <<u_name, u_cluster, u_start, u_calls, u_pc, u_result>>
readyVars == <<g_pc, g_timeout, g_start, g_pod, g_slept, g_reads>>
vars == <<fnVars, waitVars, recVars, expVars, scopeVars, frameVars, vnameVars,
          buildVars, startVars, userVars, readyVars>>

---------------------------------------------------------------------------
(* Status dictionaries: Python dicts with string keys, modelled as          *)
(* functions from a finite set of keys to values.                           *)

Keys == {"state", "extra"}
Vals == {"Pending", "Ready"}

Dicts == UNION {[S -> Vals] : S \in SUBSET Keys}

EmptyDict == [k \in {} |-> "Pending"]

\* not d  (a dict is falsy exactly when it has no key)
IsFalsy(d) == DOMAIN d = {}

\* crds/base.py:14-23.  The mathematical relation the docstring names.
DictSubset(subset, superset) ==
    \A k \in DOMAIN subset : k \in DOMAIN superset /\ superset[k] = subset[k]

\* crds/base.py:14-23
IsStatusSubset(subset, superset) ==
    IF IsFalsy(superset) THEN FALSE
    ELSE \A k \in DOMAIN subset :
            ~(k \notin DOMAIN superset \/ superset[k] # subset[k])

---------------------------------------------------------------------------
(* SpecSubset: _is_status_subset on every pair of bounded dictionaries.     *)

FnInit ==
    /\ fn_subset \in Dicts
    /\ fn_superset \in Dicts
    /\ fn_result = FALSE
    /\ fn_done = FALSE

FnApply ==
    /\ ~fn_done
    /\ fn_result' = IsStatusSubset(fn_subset, fn_superset)
    /\ fn_done' = TRUE
    /\ UNCHANGED <<fn_subset, fn_superset>>

---------------------------------------------------------------------------
(* SpecWait: BaseCustomResource.wait_for_status (crds/base.py:314-356).     *)
(* The clock counts ticks of 1/TicksPerSecond second, so that int() of the  *)
(* remaining time truncates as it does in the code.                          *)

TicksPerSecond == 2
MaxTime == 4
MaxEvents == 2
MaxWatches == 2

Timeouts == {1, TicksPerSecond, 2 * TicksPerSecond}

\* statuses the cluster object and the watch events take in this machine
WaitDicts == {[state |-> "Pending"],
              [state |-> "Ready", extra |-> "Pending"]}

\* an object as the API returns it: "status" may be missing
Objects == {[has |-> TRUE, st |-> d] : d \in WaitDicts}
              \cup {[has |-> FALSE, st |-> EmptyDict]}

Wants == {EmptyDict, [state |-> "Ready"]}

NoEvent == [has |-> FALSE, st |-> EmptyDict]

Refreshes == {"R+", "R-", "R!"}

Last(s) == s[Len(s)]

\* crds/base.py:108-110 and 263-271: refresh() stores data.get("status", {})
RefreshedStatus(obj) == IF obj.has THEN obj.st ELSE EmptyDict

\* crds/base.py:335: "status" in obj and _is_status_subset(status, obj["status"])
EventMatches(want, obj) == obj.has /\ IsStatusSubset(want, obj.st)

\* a remaining time rounded up to the next whole second
RemainingTimeoutRoundedUp(timeout, start, now) ==
    (timeout - (now - start) + TicksPerSecond - 1) \div TicksPerSecond

\* crds/base.py:324: int(timeout - (time.time() - start_time)), in seconds
RemainingTimeout(timeout, start, now) == (timeout - (now - start)) \div TicksPerSecond

\* a generator that swallows the event instead of yielding it
YieldEventDropped(yielded, e) == yielded

\* crds/base.py:333: yield event
YieldEvent(yielded, e) == Append(yielded, e)

\* a loop that never refreshes after a closed stream
RefreshOnCloseNever(had) == FALSE

\* crds/base.py:344: if not watch_had_events
RefreshOnClose(had) == ~had

\* crds/base.py:280-293 watch: only the namespaced branch returns a stream
WatchImplemented(namespaced) == namespaced

WaitInit ==
    /\ w_pc = "call"
    /\ w_want \in Wants
    /\ w_timeout \in Timeouts
    /\ w_start = 0
    /\ w_now = 0
    /\ w_status = EmptyDict
    /\ w_live \in Objects
    /\ w_deadline = 0
    /\ w_had = FALSE
    /\ w_event = NoEvent
    /\ w_recv = <<>>
    /\ w_yield = <<>>
    /\ w_log = <<>>
    /\ w_namespaced \in BOOLEAN

\* entry that falls through to the watch loop even when the status matches
WFS_EntryNoReturn ==
    /\ w_pc = "call"
    /\ w_start' = w_now
    /\ \E ok \in BOOLEAN :
         IF ~ok
         THEN /\ w_pc' = "raised_api"
              /\ w_log' = Append(w_log, "R!")
              /\ UNCHANGED w_status
         ELSE /\ w_status' = RefreshedStatus(w_live)
              /\ w_log' = Append(w_log, IF IsStatusSubset(w_want, RefreshedStatus(w_live))
                                        THEN "R+" ELSE "R-")
              /\ w_pc' = "loop"
    /\ UNCHANGED <<w_want, w_timeout, w_now, w_live, w_deadline, w_had,
                   w_event, w_recv, w_yield, w_namespaced>>

\* crds/base.py:316-321: start_time, refresh, return if already satisfied
WFS_Entry ==
    /\ w_pc = "call"
    /\ w_start' = w_now
    /\ \E ok \in BOOLEAN :
         IF ~ok
         THEN /\ w_pc' = "raised_api"
              /\ w_log' = Append(w_log, "R!")
              /\ UNCHANGED w_status
         ELSE /\ w_status' = RefreshedStatus(w_live)
              /\ IF IsStatusSubset(w_want, RefreshedStatus(w_live))
                 THEN /\ w_log' = Append(w_log, "R+")
                      /\ w_pc' = "returned"
                 ELSE /\ w_log' = Append(w_log, "R-")
                      /\ w_pc' = "loop"
    /\ UNCHANGED <<w_want, w_timeout, w_now, w_live, w_deadline, w_had,
                   w_event, w_recv, w_yield, w_namespaced>>

\* crds/base.py:323: while time.time() - start_time < timeout
WFS_While ==
    /\ w_pc = "loop"
    /\ w_pc' = IF w_now - w_start < w_timeout THEN "remaining" ELSE "final"
    /\ UNCHANGED <<w_want, w_timeout, w_start, w_now, w_status, w_live,
                   w_deadline, w_had, w_event, w_recv, w_yield, w_log, w_namespaced>>

\* a loop that opens its watch with no timeout_seconds: the stream has no end
WFS_WatchUnbounded ==
    /\ w_pc = "remaining"
    /\ LET remaining == RemainingTimeout(w_timeout, w_start, w_now) IN
         IF remaining <= 0
         THEN /\ w_pc' = "final"
              /\ UNCHANGED <<w_deadline, w_had, w_log>>
         ELSE IF ~WatchImplemented(w_namespaced)
         THEN /\ w_pc' = "raised_not_implemented"
              /\ UNCHANGED <<w_deadline, w_had, w_log>>
         ELSE /\ Cardinality({i \in 1..Len(w_log) : w_log[i] = "W"}) < MaxWatches
              /\ w_had' = FALSE
              /\ w_deadline' = MaxTime + 1
              /\ w_log' = Append(w_log, "W")
              /\ w_pc' = "watching"
    /\ UNCHANGED <<w_want, w_timeout, w_start, w_now, w_status, w_live,
                   w_event, w_recv, w_yield, w_namespaced>>

\* crds/base.py:324-331 and 273-293: remaining_timeout, break, or open the
\* watch; watch() raises NotImplementedError for a cluster-scoped resource
WFS_Watch ==
    /\ w_pc = "remaining"
    /\ LET remaining == RemainingTimeout(w_timeout, w_start, w_now) IN
         IF remaining <= 0
         THEN /\ w_pc' = "final"
              /\ UNCHANGED <<w_deadline, w_had, w_log>>
         ELSE IF ~WatchImplemented(w_namespaced)
         THEN /\ w_pc' = "raised_not_implemented"
              /\ UNCHANGED <<w_deadline, w_had, w_log>>
         ELSE /\ Cardinality({i \in 1..Len(w_log) : w_log[i] = "W"}) < MaxWatches
              /\ w_had' = FALSE
              /\ w_deadline' = w_now + remaining * TicksPerSecond
              /\ w_log' = Append(w_log, "W")
              /\ w_pc' = "watching"
    /\ UNCHANGED <<w_want, w_timeout, w_start, w_now, w_status, w_live,
                   w_event, w_recv, w_yield, w_namespaced>>

\* crds/base.py:331-333: the stream delivers an event, which is yielded
WFS_Recv(e) ==
    /\ w_pc = "watching"
    /\ w_now < w_deadline
    /\ Len(w_recv) < MaxEvents
    /\ w_had' = TRUE
    /\ w_event' = e
    /\ w_recv' = Append(w_recv, e)
    /\ w_yield' = YieldEvent(w_yield, e)
    /\ w_log' = Append(w_log, "Y")
    /\ w_pc' = "yielded"
    /\ UNCHANGED <<w_want, w_timeout, w_start, w_now, w_status, w_live, w_deadline,
                   w_namespaced>>

\* resumption that trusts the event and returns without looking at the refresh
WFS_ResumeTrustEvent ==
    /\ w_pc = "yielded"
    /\ IF EventMatches(w_want, w_event)
       THEN \E ok \in BOOLEAN :
              IF ~ok
              THEN /\ w_pc' = "raised_api"
                   /\ w_log' = w_log \o <<"E+", "R!">>
                   /\ UNCHANGED w_status
              ELSE /\ w_status' = RefreshedStatus(w_live)
                   /\ w_log' = w_log \o <<"E+", IF IsStatusSubset(w_want, RefreshedStatus(w_live))
                                                THEN "R+" ELSE "R-">>
                   /\ w_pc' = "returned"
       ELSE /\ w_log' = Append(w_log, "E-")
            /\ w_pc' = "watching"
            /\ UNCHANGED w_status
    /\ UNCHANGED <<w_want, w_timeout, w_start, w_now, w_live, w_deadline,
                   w_had, w_event, w_recv, w_yield, w_namespaced>>

\* crds/base.py:334-340: the caller resumes the generator after the yield
WFS_Resume ==
    /\ w_pc = "yielded"
    /\ IF EventMatches(w_want, w_event)
       THEN \E ok \in BOOLEAN :
              IF ~ok
              THEN /\ w_pc' = "raised_api"
                   /\ w_log' = w_log \o <<"E+", "R!">>
                   /\ UNCHANGED w_status
              ELSE /\ w_status' = RefreshedStatus(w_live)
                   /\ IF IsStatusSubset(w_want, RefreshedStatus(w_live))
                      THEN /\ w_log' = w_log \o <<"E+", "R+">>
                           /\ w_pc' = "returned"
                      ELSE /\ w_log' = w_log \o <<"E+", "R-">>
                           /\ w_pc' = "watching"
       ELSE /\ w_log' = Append(w_log, "E-")
            /\ w_pc' = "watching"
            /\ UNCHANGED w_status
    /\ UNCHANGED <<w_want, w_timeout, w_start, w_now, w_live, w_deadline,
                   w_had, w_event, w_recv, w_yield, w_namespaced>>

\* crds/base.py:331 and 342-347: the stream ends and the for loop completes
WFS_Close ==
    /\ w_pc = "watching"
    /\ IF RefreshOnClose(w_had)
       THEN \E ok \in BOOLEAN :
              IF ~ok
              THEN /\ w_pc' = "raised_api"
                   /\ w_log' = w_log \o <<"C", "R!">>
                   /\ UNCHANGED w_status
              ELSE /\ w_status' = RefreshedStatus(w_live)
                   /\ IF IsStatusSubset(w_want, RefreshedStatus(w_live))
                      THEN /\ w_log' = w_log \o <<"C", "R+">>
                           /\ w_pc' = "returned"
                      ELSE /\ w_log' = w_log \o <<"C", "R-">>
                           /\ w_pc' = "loop"
       ELSE /\ w_log' = Append(w_log, "C")
            /\ w_pc' = "loop"
            /\ UNCHANGED w_status
    /\ UNCHANGED <<w_want, w_timeout, w_start, w_now, w_live, w_deadline,
                   w_had, w_event, w_recv, w_yield, w_namespaced>>

\* a final step that raises without consulting the refreshed status
WFS_FinalNoCheck ==
    /\ w_pc = "final"
    /\ \E ok \in BOOLEAN :
         IF ~ok
         THEN /\ w_pc' = "raised_api"
              /\ w_log' = w_log \o <<"F", "R!">>
              /\ UNCHANGED w_status
         ELSE /\ w_status' = RefreshedStatus(w_live)
              /\ w_log' = w_log \o <<"F", IF IsStatusSubset(w_want, RefreshedStatus(w_live))
                                          THEN "R+" ELSE "R-">>
              /\ w_pc' = "raised_timeout"
    /\ UNCHANGED <<w_want, w_timeout, w_start, w_now, w_live, w_deadline,
                   w_had, w_event, w_recv, w_yield, w_namespaced>>

\* crds/base.py:349-356: last refresh and check, then TimeoutError
WFS_Final ==
    /\ w_pc = "final"
    /\ \E ok \in BOOLEAN :
         IF ~ok
         THEN /\ w_pc' = "raised_api"
              /\ w_log' = w_log \o <<"F", "R!">>
              /\ UNCHANGED w_status
         ELSE /\ w_status' = RefreshedStatus(w_live)
              /\ IF IsStatusSubset(w_want, RefreshedStatus(w_live))
                 THEN /\ w_log' = w_log \o <<"F", "R+">>
                      /\ w_pc' = "returned"
                 ELSE /\ w_log' = w_log \o <<"F", "R-">>
                      /\ w_pc' = "raised_timeout"
    /\ UNCHANGED <<w_want, w_timeout, w_start, w_now, w_live, w_deadline,
                   w_had, w_event, w_recv, w_yield, w_namespaced>>

\* time.time() advances
WaitTick ==
    /\ w_now < MaxTime
    /\ w_now' = w_now + 1
    /\ UNCHANGED <<w_pc, w_want, w_timeout, w_start, w_status, w_live,
                   w_deadline, w_had, w_event, w_recv, w_yield, w_log, w_namespaced>>

\* another client or the operator changes the stored object
ServerUpdate(o) ==
    /\ o # w_live
    /\ w_pc \notin {"returned", "raised_timeout", "raised_api",
                   "raised_not_implemented"}
    /\ w_live' = o
    /\ UNCHANGED <<w_pc, w_want, w_timeout, w_start, w_now, w_status,
                   w_deadline, w_had, w_event, w_recv, w_yield, w_log, w_namespaced>>

WaitNext ==
    \/ WFS_Entry
    \/ WFS_While
    \/ WFS_Watch
    \/ \E e \in Objects : WFS_Recv(e)
    \/ WFS_Resume
    \/ WFS_Close
    \/ WFS_Final
    \/ WaitTick
    \/ \E o \in Objects : ServerUpdate(o)


---------------------------------------------------------------------------
(* Durations.  A duration string is a sequence of one-character strings;    *)
(* the empty sequence stands for an absent or empty value (`not ttl_str`).  *)

Digits == {"0", "1", "2", "3", "4", "5", "6", "7", "8", "9"}

DigitValue(c) ==
    CASE c = "0" -> 0 [] c = "1" -> 1 [] c = "2" -> 2 [] c = "3" -> 3
      [] c = "4" -> 4 [] c = "5" -> 5 [] c = "6" -> 6 [] c = "7" -> 7
      [] c = "8" -> 8 [] c = "9" -> 9

Units == {"s", "m", "h", "d"}

UnitSeconds(c) ==
    CASE c = "s" -> 1 [] c = "m" -> 60 [] c = "h" -> 3600 [] c = "d" -> 86400

\* the ValueError of parse_duration
ParseError == -1

RECURSIVE ParseFrom(_, _, _, _, _)
ParseFrom(str, i, total, num, digits) ==
    IF i > Len(str)
    THEN IF digits \/ Len(str) = 0 THEN ParseError ELSE total
    ELSE IF str[i] \in Digits
         THEN ParseFrom(str, i + 1, total, num * 10 + DigitValue(str[i]), TRUE)
         ELSE IF str[i] \in Units /\ digits
              THEN ParseFrom(str, i + 1, total + num * UnitSeconds(str[i]), 0, FALSE)
              ELSE ParseError

\* devservers.utils.time.parse_duration: integer-suffix forms s|m|h|d and
\* their combinations ("1h30m"), in seconds; ParseError for anything else
ParseDuration(str) == ParseFrom(str, 1, 0, 0, FALSE)

\* validation.py:28: timedelta(days=7), in seconds
MaxTTLSeconds == 7 * 86400

\* validation that forgets the upper limit
ValidateTTLNoUpperLimit(ttl) ==
    IF Len(ttl) = 0 THEN "ok"
    ELSE LET duration == ParseDuration(ttl) IN
         IF duration = ParseError THEN "permanent"
         ELSE IF duration <= 0 THEN "permanent"
         ELSE "ok"

\* validation.py:13-33 validate_and_normalize_ttl
ValidateTTL(ttl) ==
    IF Len(ttl) = 0 THEN "ok"
    ELSE LET duration == ParseDuration(ttl) IN
         IF duration = ParseError THEN "permanent"
         ELSE IF duration <= 0 THEN "permanent"
         ELSE IF duration > MaxTTLSeconds THEN "permanent"
         ELSE "ok"

---------------------------------------------------------------------------
(* Volumes.  An entry of spec.volumes is [isDict, hasPath, mountPath]:      *)
(* isDict is isinstance(volume, dict), hasPath says whether the key         *)
(* "mountPath" is present, mountPath is its value ("" when absent).         *)

MaxVolumes == 2

MountPaths == {"/home/dev", "/data"}

NotADict == [isDict |-> FALSE, hasPath |-> FALSE, mountPath |-> ""]
NoMountPath == [isDict |-> TRUE, hasPath |-> FALSE, mountPath |-> ""]
EmptyMountPath == [isDict |-> TRUE, hasPath |-> TRUE, mountPath |-> ""]
Mount(p) == [isDict |-> TRUE, hasPath |-> TRUE, mountPath |-> p]

VolumeEntries == {NotADict, NoMountPath, EmptyMountPath} \cup {Mount(p) : p \in MountPaths}

VolumeLists == UNION {[1..n -> VolumeEntries] : n \in 0..MaxVolumes}

\* volume.get("mountPath") is falsy
PathFalsy(v) == ~v.hasPath \/ v.mountPath = ""

RECURSIVE ValidateVolumesFromNoDup(_, _, _)
ValidateVolumesFromNoDup(volumes, idx, mount_paths) ==
    IF idx > Len(volumes) THEN "ok"
    ELSE IF ~volumes[idx].isDict THEN "permanent"
    ELSE IF PathFalsy(volumes[idx]) THEN "permanent"
    ELSE ValidateVolumesFromNoDup(volumes, idx + 1, mount_paths)

\* validation that forgets the duplicate test
ValidateVolumesNoDup(volumes) ==
    IF Len(volumes) = 0 THEN "ok" ELSE ValidateVolumesFromNoDup(volumes, 1, {})

RECURSIVE ValidateVolumesFrom(_, _, _)
\* validation.py:47-62, the loop from index idx with the paths seen so far
ValidateVolumesFrom(volumes, idx, mount_paths) ==
    IF idx > Len(volumes) THEN "ok"
    ELSE IF ~volumes[idx].isDict THEN "permanent"
    ELSE IF PathFalsy(volumes[idx]) THEN "permanent"
    ELSE IF volumes[idx].mountPath \in mount_paths THEN "permanent"
    ELSE ValidateVolumesFrom(volumes, idx + 1,
                             mount_paths \cup {volumes[idx].mountPath})

\* validation.py:36-62 validate_volumes
ValidateVolumes(volumes) ==
    IF Len(volumes) = 0 THEN "ok" ELSE ValidateVolumesFrom(volumes, 1, {})

---------------------------------------------------------------------------
(* SpecReconcile: create_or_update_devserver (handler.py:22-92) and         *)
(* DevServerReconciler (reconciler.py:92-196) for one DevServer.  Every API *)
(* call is a step of its own; between two steps other actors may create or  *)
(* delete the children.  The handler reaches reconcile_devserver through    *)
(* the call at handler.py:78.  Of the bodies the builders return only the   *)
(* container image of the workload is kept: it is the part of a body that   *)
(* depends on the spec here (statefulset.py:14).  Other actors take at most *)
(* MaxInterference steps in a run.                                          *)

MaxInterference == 1

TTLInputs == {<<>>, <<"1", "h", "3", "0", "m">>, <<"7", "d">>,
              <<"0", "s">>, <<"8", "d">>, <<"s">>, <<"1", "h", "3">>}

FlavorNames == {"cpu-small", "missing"}

\* operator/config.py:13 DEFAULT_DEVSERVER_IMAGE; the other image a spec names
DefaultImage == "seemethere/devserver-base:latest"
OtherImage == "fedora:latest"

\* spec without the key "image"; also the image of a workload that is absent
NoImage == ""

\* specs delivered with events: every TTL input with no volumes, and every
\* volume list with no TTL, for each flavor name and SSH setting, without
\* and with an image of their own
SpecInputs ==
    {[ttl |-> t, volumes |-> <<>>, flavor |-> f, enableSSH |-> e, image |-> NoImage] :
        t \in TTLInputs, f \in FlavorNames, e \in BOOLEAN}
    \cup {[ttl |-> <<>>, volumes |-> v, flavor |-> f, enableSSH |-> e, image |-> NoImage] :
        v \in VolumeLists, f \in FlavorNames, e \in BOOLEAN}
    \cup {[ttl |-> <<>>, volumes |-> <<>>, flavor |-> f, enableSSH |-> e, image |-> OtherImage] :
        f \in FlavorNames, e \in BOOLEAN}

NoSpec == [ttl |-> <<>>, volumes |-> <<>>, flavor |-> "missing", enableSSH |-> FALSE,
           image |-> NoImage]

NoStart == [cluster |-> {}, image |-> NoImage, env |-> 0]

HostKeySecret == "secret_host_keys"
Workload == "statefulset"
ConfigMapIds == {"sshd_configmap", "startup_script_configmap", "user_login_script_configmap"}
ServiceIds == {"headless_service", "ssh_service"}
ChildIds == {HostKeySecret, Workload} \cup ConfigMapIds \cup ServiceIds

\* a reconciler that reports success without reconciling the workload
ChildPlanNoWorkload(spec) ==
    <<"sshd_configmap", "startup_script_configmap", "user_login_script_configmap",
      "headless_service">>
    \o (IF spec.enableSSH THEN <<"ssh_service">> ELSE <<>>)

\* a reconciler that writes the workload before the objects its pod mounts
ChildPlanWorkloadFirst(spec) ==
    <<Workload>>
    \o <<"sshd_configmap", "startup_script_configmap", "user_login_script_configmap",
         "headless_service">>
    \o (IF spec.enableSSH THEN <<"ssh_service">> ELSE <<>>)

\* reconciler.py:100-115: the children reconcile_resources goes through, in order
ChildPlan(spec) ==
    <<"sshd_configmap", "startup_script_configmap", "user_login_script_configmap",
      "headless_service">>
    \o (IF spec.enableSSH THEN <<"ssh_service">> ELSE <<>>)
    \o <<Workload>>

Written(writes) == {writes[k].obj : k \in 1..Len(writes)}

\* a builder that always takes the operator's default image
BuildWorkloadIgnoresSpec(spec) == DefaultImage

\* statefulset.py:14 and 59: image = spec.get("image", default_devserver_image)
BuildWorkload(spec) == IF spec.image = NoImage THEN DefaultImage ELSE spec.image

\* a patch that is acknowledged and leaves the stored workload as it was
PatchedImageKeepsOld(child, old, spec) == old

\* reconciler.py:179-184: the patch carries the built body; the other children
\* have no image
PatchedImage(child, old, spec) == IF child = Workload THEN BuildWorkload(spec) ELSE old

\* a handler that goes from the flavor straight to the children
AfterFlavorSkipsHostKeys == "read"

\* handler.py:67-75: after the flavor was read the host keys are ensured
AfterFlavor == "host_keys"

RecInit ==
    /\ r_spec = NoSpec
    /\ r_flavors = {"cpu-small"}
    /\ r_cluster = {}
    /\ r_pc = "idle"
    /\ r_i = 0
    /\ r_writes = <<>>
    /\ r_flavorGet = "none"
    /\ r_outcome = "none"
    /\ r_patch = "none"
    /\ r_phase = "none"
    /\ r_env = 0
    /\ r_image = NoImage
    /\ r_start = NoStart
    /\ r_err = "none"
    /\ r_keys = "none"

\* the handler ends with a result or an exception
Finish(outcome, err) ==
    /\ r_pc' = "done"
    /\ r_outcome' = outcome
    /\ r_err' = err

\* handler.py:41-49: an event arrives with its spec; TTL and volumes are
\* validated before the first API call
H_Event(spec) ==
    /\ r_pc = "idle"
    /\ r_spec' = spec
    /\ r_writes' = <<>>
    /\ r_flavorGet' = "none"
    /\ r_patch' = "none"
    /\ r_i' = 0
    /\ r_keys' = "none"
    /\ r_start' = [cluster |-> r_cluster, image |-> r_image, env |-> r_env]
    /\ IF ValidateTTL(spec.ttl) = "permanent" THEN Finish("permanent", "invalid_ttl")
       ELSE IF ValidateVolumes(spec.volumes) = "permanent"
            THEN Finish("permanent", "invalid_volumes")
       ELSE /\ r_pc' = "get_flavor"
            /\ r_outcome' = "pending"
            /\ r_err' = "none"
    /\ UNCHANGED <<r_flavors, r_cluster, r_phase, r_image, r_env>>

\* a flavor read that turns every ApiException into a PermanentError
H_GetFlavorAllPermanent(fails) ==
    /\ r_pc = "get_flavor"
    /\ IF fails
       THEN /\ r_flavorGet' = "error"
            /\ Finish("permanent", "api")
            /\ UNCHANGED r_i
       ELSE IF r_spec.flavor \notin r_flavors
            THEN /\ r_flavorGet' = "not_found"
                 /\ Finish("permanent", "flavor_not_found")
                 /\ UNCHANGED r_i
            ELSE /\ r_flavorGet' = "found"
                 /\ r_pc' = AfterFlavor
                 /\ r_i' = IF AfterFlavor = "read" THEN 1 ELSE r_i
                 /\ UNCHANGED <<r_outcome, r_err>>
    /\ UNCHANGED <<r_spec, r_flavors, r_cluster, r_writes, r_patch, r_phase, r_env,
                   r_image, r_start, r_keys>>

\* handler.py:51-65: read the flavor; 404 is permanent, other errors are re-raised
H_GetFlavor(fails) ==
    /\ r_pc = "get_flavor"
    /\ IF fails
       THEN /\ r_flavorGet' = "error"
            /\ Finish("transient", "api")
            /\ UNCHANGED r_i
       ELSE IF r_spec.flavor \notin r_flavors
            THEN /\ r_flavorGet' = "not_found"
                 /\ Finish("permanent", "flavor_not_found")
                 /\ UNCHANGED r_i
            ELSE /\ r_flavorGet' = "found"
                 /\ r_pc' = AfterFlavor
                 /\ r_i' = IF AfterFlavor = "read" THEN 1 ELSE r_i
                 /\ UNCHANGED <<r_outcome, r_err>>
    /\ UNCHANGED <<r_spec, r_flavors, r_cluster, r_writes, r_patch, r_phase, r_env,
                   r_image, r_start, r_keys>>

\* handler.py:67-75 ensure_host_keys_secret: reuse the Secret or create it
H_EnsureHostKeys(fails) ==
    /\ r_pc = "host_keys"
    /\ IF fails
       THEN /\ Finish("transient", "api")
            /\ r_keys' = "failed"
            /\ UNCHANGED <<r_cluster, r_writes, r_i>>
       ELSE /\ IF HostKeySecret \in r_cluster
               THEN UNCHANGED <<r_cluster, r_writes>>
               ELSE /\ r_cluster' = r_cluster \cup {HostKeySecret}
                    /\ r_writes' = Append(r_writes, [op |-> "create", obj |-> HostKeySecret])
            /\ r_keys' = "ensured"
            /\ r_pc' = "read"
            /\ r_i' = 1
            /\ UNCHANGED <<r_outcome, r_err>>
    /\ UNCHANGED <<r_spec, r_flavors, r_flavorGet, r_patch, r_phase, r_env,
                   r_image, r_start>>

\* reconciler.py:120-123, 147-150, 174-177: read the child
H_Read(fails) ==
    /\ r_pc = "read"
    /\ IF fails
       THEN Finish("transient", "api")
       ELSE /\ r_pc' = IF ChildPlan(r_spec)[r_i] \in r_cluster THEN "patch" ELSE "create"
            /\ UNCHANGED <<r_outcome, r_err>>
    /\ UNCHANGED <<r_spec, r_flavors, r_cluster, r_i, r_writes, r_flavorGet,
                   r_patch, r_phase, r_env, r_image, r_start, r_keys>>

\* a handler that reports Running as soon as one child was written
AfterWriteReportsAfterFirst ==
    /\ r_patch' = "Running"
    /\ r_phase' = "Running"
    /\ Finish("running", "none")
    /\ UNCHANGED r_i

\* after a child was written: next child, or handler.py:88-92 set the status
AfterWrite ==
    IF r_i = Len(ChildPlan(r_spec))
    THEN /\ r_patch' = "Running"
         /\ r_phase' = "Running"
         /\ Finish("running", "none")
         /\ UNCHANGED r_i
    ELSE /\ r_i' = r_i + 1
         /\ r_pc' = "read"
         /\ UNCHANGED <<r_patch, r_phase, r_outcome, r_err>>

\* reconciler.py:124-142 (and 151-169, 178-196): patch; a 404 leads to create
H_Patch(fails) ==
    /\ r_pc = "patch"
    /\ LET child == ChildPlan(r_spec)[r_i] IN
       IF fails
       THEN /\ Finish("transient", "api")
            /\ UNCHANGED <<r_writes, r_i, r_patch, r_phase, r_image>>
       ELSE IF child \notin r_cluster
            THEN /\ r_pc' = "create"
                 /\ UNCHANGED <<r_writes, r_i, r_patch, r_phase, r_outcome, r_err,
                                r_image>>
            ELSE /\ r_writes' = Append(r_writes, [op |-> "patch", obj |-> child])
                 /\ r_image' = PatchedImage(child, r_image, r_spec)
                 /\ AfterWrite
    /\ UNCHANGED <<r_spec, r_flavors, r_cluster, r_flavorGet, r_env, r_start, r_keys>>

\* reconciler.py:132-142 (and 159-169, 186-196): create, called inside the
\* except block: its errors propagate, the 409 of an existing object included
H_Create(fails) ==
    /\ r_pc = "create"
    /\ LET child == ChildPlan(r_spec)[r_i] IN
       IF fails
       THEN /\ Finish("transient", "api")
            /\ UNCHANGED <<r_cluster, r_writes, r_i, r_patch, r_phase, r_image>>
       ELSE IF child \in r_cluster
            THEN /\ Finish("transient", "conflict")
                 /\ UNCHANGED <<r_cluster, r_writes, r_i, r_patch, r_phase, r_image>>
            ELSE /\ r_cluster' = r_cluster \cup {child}
                 /\ r_writes' = Append(r_writes, [op |-> "create", obj |-> child])
                 /\ r_image' = IF child = Workload THEN BuildWorkload(r_spec) ELSE r_image
                 /\ AfterWrite
    /\ UNCHANGED <<r_spec, r_flavors, r_flavorGet, r_env, r_start, r_keys>>

\* kopf is done with the event: the locals of the invocation are gone
H_Return ==
    /\ r_pc = "done"
    /\ r_pc' = "idle"
    /\ r_spec' = NoSpec
    /\ r_i' = 0
    /\ r_writes' = <<>>
    /\ r_flavorGet' = "none"
    /\ r_outcome' = "none"
    /\ r_patch' = "none"
    /\ r_start' = NoStart
    /\ r_err' = "none"
    /\ r_keys' = "none"
    /\ UNCHANGED <<r_flavors, r_cluster, r_phase, r_image, r_env>>

\* the object the next API call of the handler is about; what other actors
\* do to any other object is not seen by this invocation
InHand ==
    IF r_pc \in {"get_flavor", "host_keys"} THEN {HostKeySecret}
    ELSE IF r_pc \in {"read", "patch", "create"} THEN {ChildPlan(r_spec)[r_i]}
    ELSE {}

\* another actor creates a child while the handler runs
OtherCreate(c, img) ==
    /\ c \in InHand
    /\ r_env < MaxInterference
    /\ c \notin r_cluster
    /\ r_cluster' = r_cluster \cup {c}
    /\ r_image' = IF c = Workload THEN img ELSE r_image
    /\ r_env' = r_env + 1
    /\ UNCHANGED <<r_spec, r_flavors, r_pc, r_i, r_writes, r_flavorGet,
                   r_outcome, r_patch, r_phase, r_start, r_err, r_keys>>

\* another actor (a user, the garbage collector) deletes a child
OtherDelete(c) ==
    /\ c \in InHand
    /\ r_env < MaxInterference
    /\ c \in r_cluster
    /\ r_cluster' = r_cluster \ {c}
    /\ r_image' = IF c = Workload THEN NoImage ELSE r_image
    /\ r_env' = r_env + 1
    /\ UNCHANGED <<r_spec, r_flavors, r_pc, r_i, r_writes, r_flavorGet,
                   r_outcome, r_patch, r_phase, r_start, r_err, r_keys>>

RecNext ==
    \/ \E spec \in SpecInputs : H_Event(spec)
    \/ \E fails \in BOOLEAN : H_GetFlavor(fails)
    \/ \E fails \in BOOLEAN : H_EnsureHostKeys(fails)
    \/ \E fails \in BOOLEAN : H_Read(fails)
    \/ \E fails \in BOOLEAN : H_Patch(fails)
    \/ \E fails \in BOOLEAN : H_Create(fails)
    \/ H_Return
    \/ \E c \in ChildIds, img \in {DefaultImage, OtherImage} : OtherCreate(c, img)
    \/ \E c \in ChildIds : OtherDelete(c)

---------------------------------------------------------------------------
(* SpecExpire: cleanup_expired_devservers (lifecycle.py:46-87) with          *)
(* check_and_expire_devservers, is_expired and _delete_devserver.  Users     *)
(* create and delete DevServers; the clock counts seconds.                   *)

MaxClock == 3

DSNames == {"ds-a", "ds-b"}

ExpTTLs == {<<>>, <<"1", "s">>, <<"2", "s">>, <<"x">>}

NoDS == [st |-> "new", ttl |-> <<>>, created |-> 0]

\* how a call of check_and_expire_devservers stands: not made yet, awaiting
\* gather, ended by an exception, or returned with a value
NoReturn == [how |-> "none", value |-> 0]
Pending == [how |-> "pending", value |-> 0]
Raised == [how |-> "raised", value |-> 0]
Returned(n) == [how |-> "returned", value |-> n]

\* an expiry test that also fires at the very instant of expiration
IsExpiredInclusive(ttl, created, now) ==
    IF Len(ttl) = 0 THEN FALSE
    ELSE IF ParseDuration(ttl) = ParseError THEN FALSE
    ELSE now >= created + ParseDuration(ttl)

\* lifecycle.py:90-117 is_expired: no TTL and unparsable TTL are not expired
IsExpired(ttl, created, now) ==
    IF Len(ttl) = 0 THEN FALSE
    ELSE IF ParseDuration(ttl) = ParseError THEN FALSE
    ELSE now > created + ParseDuration(ttl)

ExpInit ==
    /\ x_ds = [n \in DSNames |-> NoDS]
    /\ x_now = 0
    /\ x_pc = "sleep"
    /\ x_tasks = {}
    /\ x_erred = FALSE
    /\ x_count = 0
    /\ x_ret = NoReturn

\* a user creates a DevServer; the API server stamps creationTimestamp
UserCreate(n, ttl) ==
    /\ x_pc # "parked"
    /\ x_ds[n].st = "new"
    /\ x_ds' = [x_ds EXCEPT ![n] = [st |-> "live", ttl |-> ttl, created |-> x_now]]
    /\ UNCHANGED <<x_now, x_pc, x_tasks, x_erred, x_count, x_ret>>

\* a user deletes a DevServer
UserDelete(n) ==
    /\ x_ds[n].st = "live"
    /\ x_ds' = [x_ds EXCEPT ![n].st = "gone"]
    /\ UNCHANGED <<x_now, x_pc, x_tasks, x_erred, x_count, x_ret>>

ExpTick ==
    /\ x_pc # "parked"
    /\ x_now < MaxClock
    /\ x_now' = x_now + 1
    /\ UNCHANGED <<x_ds, x_pc, x_tasks, x_erred, x_count, x_ret>>

\* the delete coroutines of the items found expired at instant now
DeleteTasks(ds, now) ==
    {[name |-> n, ttl |-> ds[n].ttl, created |-> ds[n].created, at |-> now, cur |-> TRUE] :
        n \in {m \in DSNames : ds[m].st = "live"
                                /\ IsExpired(ds[m].ttl, ds[m].created, now)}}

\* lifecycle.py:31-38: expired_count, one more for each item found expired
ExpiredCount(ds, now) == Cardinality(DeleteTasks(ds, now))

\* a loop that ends when a sweep raises
SweepListDiesOnError(fails) ==
    /\ x_pc = "sleep"
    /\ IF fails
       THEN /\ x_erred' = TRUE
            /\ x_pc' = "dead"
            /\ x_count' = 0
            /\ x_ret' = Raised
            /\ UNCHANGED x_tasks
       ELSE /\ x_tasks' = x_tasks \cup DeleteTasks(x_ds, x_now)
            /\ x_pc' = IF DeleteTasks(x_ds, x_now) = {} THEN "sleep" ELSE "gather"
            /\ x_count' = ExpiredCount(x_ds, x_now)
            /\ x_ret' = IF DeleteTasks(x_ds, x_now) = {} THEN Returned(0) ELSE Pending
            /\ UNCHANGED x_erred
    /\ UNCHANGED <<x_ds, x_now>>

\* lifecycle.py:24-40 and 76-87: list, pick the expired, start their deletes;
\* an exception of the list call is caught by the loop, which sleeps and goes on
SweepList(fails) ==
    /\ x_pc = "sleep"
    /\ IF fails
       THEN /\ x_erred' = TRUE
            /\ x_count' = 0
            /\ x_ret' = Raised
            /\ UNCHANGED <<x_pc, x_tasks>>
       ELSE /\ x_tasks' = x_tasks \cup DeleteTasks(x_ds, x_now)
            /\ x_pc' = IF DeleteTasks(x_ds, x_now) = {} THEN "sleep" ELSE "gather"
            /\ x_count' = ExpiredCount(x_ds, x_now)
            /\ x_ret' = IF DeleteTasks(x_ds, x_now) = {} THEN Returned(0) ELSE Pending
            /\ UNCHANGED x_erred
    /\ UNCHANGED <<x_ds, x_now>>

\* a gather that cancels the sibling deletes when one delete raises
DeleteCallCancelsSiblings(t, fails) ==
    /\ t \in x_tasks
    /\ IF fails
       THEN /\ x_tasks' = IF t.cur
                          THEN {u \in x_tasks \ {t} : ~u.cur}
                          ELSE x_tasks \ {t}
            /\ x_pc' = IF t.cur THEN "sleep" ELSE x_pc
            /\ x_erred' = (x_erred \/ t.cur)
            /\ x_ret' = IF t.cur THEN Raised ELSE x_ret
            /\ UNCHANGED x_ds
       ELSE /\ x_tasks' = x_tasks \ {t}
            /\ x_pc' = IF t.cur /\ ~(\E u \in x_tasks \ {t} : u.cur) THEN "sleep" ELSE x_pc
            /\ x_ds' = IF x_ds[t.name].st = "live"
                       THEN [x_ds EXCEPT ![t.name].st = "expired"]
                       ELSE x_ds
            /\ x_ret' = IF t.cur /\ ~(\E u \in x_tasks \ {t} : u.cur)
                       THEN Returned(x_count) ELSE x_ret
            /\ UNCHANGED x_erred
    /\ UNCHANGED <<x_now, x_count>>

\* lifecycle.py:120-162 _delete_devserver and lifecycle.py:39-43, 76-87: the
\* delete call of one task.  not-found is ignored; another error leaves
\* gather, is caught by the loop, and the sibling tasks run on unawaited
DeleteCall(t, fails) ==
    /\ t \in x_tasks
    /\ IF fails
       THEN /\ x_tasks' = IF t.cur
                          THEN {[u EXCEPT !.cur = FALSE] : u \in x_tasks \ {t}}
                          ELSE x_tasks \ {t}
            /\ x_pc' = IF t.cur THEN "sleep" ELSE x_pc
            /\ x_erred' = (x_erred \/ t.cur)
            /\ x_ret' = IF t.cur THEN Raised ELSE x_ret
            /\ UNCHANGED x_ds
       ELSE /\ x_tasks' = x_tasks \ {t}
            /\ x_pc' = IF t.cur /\ ~(\E u \in x_tasks \ {t} : u.cur) THEN "sleep" ELSE x_pc
            /\ x_ds' = IF x_ds[t.name].st = "live"
                       THEN [x_ds EXCEPT ![t.name].st = "expired"]
                       ELSE x_ds
            /\ x_ret' = IF t.cur /\ ~(\E u \in x_tasks \ {t} : u.cur)
                       THEN Returned(x_count) ELSE x_ret
            /\ UNCHANGED x_erred
    /\ UNCHANGED <<x_now, x_count>>

AllTasks == [name : DSNames, ttl : ExpTTLs, created : 0..MaxClock,
             at : 0..MaxClock, cur : BOOLEAN]

ExpNext ==
    \/ \E n \in DSNames, ttl \in ExpTTLs : UserCreate(n, ttl)
    \/ \E n \in DSNames : UserDelete(n)
    \/ ExpTick
    \/ \E fails \in BOOLEAN : SweepList(fails)
    \/ \E t \in AllTasks, fails \in BOOLEAN : DeleteCall(t, fails)

---------------------------------------------------------------------------
(* SpecFrame: the API requests of the expiration sweep and of the DevServer  *)
(* delete handler, next to the objects they could touch.  Every DevServer    *)
(* mounts a user-managed PersistentVolumeClaim of its own and owns the       *)
(* workload its reconciliation created; the garbage collector of the         *)
(* cluster, not the operator, removes the workload of a deleted owner.       *)

\* lifecycle.py:24-28 check_and_expire_devservers: one cluster-wide list
ListRequests == {[by |-> "sweep", verb |-> "list", kind |-> "DevServer"]}

\* a delete that takes the mounted claim along with the DevServer
DeleteRequestsWithClaim ==
    {[by |-> "sweep", verb |-> "delete", kind |-> "DevServer"],
     [by |-> "sweep", verb |-> "delete", kind |-> "PersistentVolumeClaim"]}

\* lifecycle.py:148-157 _delete_devserver: one delete of the custom object
DeleteRequests ==
    {[by |-> "sweep", verb |-> "delete", kind |-> "DevServer"]}

\* handler.py:94-109 delete_devserver: two log lines, no API request
HandlerRequests == {}

\* the kinds of object a set of requests removes
Removed(requests) == {q.kind : q \in {p \in requests : p.verb = "delete"}}

FrameInit ==
    /\ f_calls = {}
    /\ f_pvcs = DSNames
    /\ f_kids = {}
    /\ f_handled = {}

\* the create handler reconciles the new DevServer and writes its workload
F_UserCreate(n, ttl) ==
    /\ UserCreate(n, ttl)
    /\ f_kids' = f_kids \cup {n}
    /\ UNCHANGED <<f_calls, f_pvcs, f_handled>>

F_UserDelete(n) ==
    /\ UserDelete(n)
    /\ UNCHANGED frameVars

F_Tick ==
    /\ ExpTick
    /\ UNCHANGED frameVars

F_SweepList(fails) ==
    /\ SweepList(fails)
    /\ f_calls' = f_calls \cup ListRequests
    /\ UNCHANGED <<f_pvcs, f_kids, f_handled>>

\* the requests of one _delete_devserver call and what they remove
F_DeleteCall(t, fails) ==
    /\ DeleteCall(t, fails)
    /\ f_calls' = f_calls \cup DeleteRequests
    /\ f_pvcs' = IF ~fails /\ "PersistentVolumeClaim" \in Removed(DeleteRequests)
                 THEN f_pvcs \ {t.name} ELSE f_pvcs
    /\ f_kids' = IF ~fails /\ "Workload" \in Removed(DeleteRequests)
                 THEN f_kids \ {t.name} ELSE f_kids
    /\ UNCHANGED f_handled

\* handler.py:94-109: kopf runs delete_devserver once for a DevServer that is
\* being deleted, whoever deleted it
F_DeleteHandler(n) ==
    /\ x_ds[n].st \in {"gone", "expired"}
    /\ n \notin f_handled
    /\ f_handled' = f_handled \cup {n}
    /\ f_calls' = f_calls \cup HandlerRequests
    /\ f_pvcs' = IF "PersistentVolumeClaim" \in Removed(HandlerRequests)
                 THEN f_pvcs \ {n} ELSE f_pvcs
    /\ f_kids' = IF "Workload" \in Removed(HandlerRequests)
                 THEN f_kids \ {n} ELSE f_kids
    /\ UNCHANGED expVars

\* the cluster collects the workload whose owner is gone (owner references)
F_GarbageCollect(n) ==
    /\ x_ds[n].st \in {"gone", "expired"}
    /\ n \in f_kids
    /\ f_kids' = f_kids \ {n}
    /\ UNCHANGED <<f_calls, f_pvcs, f_handled>>
    /\ UNCHANGED expVars

FrameNext ==
    \/ \E n \in DSNames, ttl \in ExpTTLs : F_UserCreate(n, ttl)
    \/ \E n \in DSNames : F_UserDelete(n)
    \/ F_Tick
    \/ \E fails \in BOOLEAN : F_SweepList(fails)
    \/ \E t \in AllTasks, fails \in BOOLEAN : F_DeleteCall(t, fails)
    \/ \E n \in DSNames : F_DeleteHandler(n)
    \/ \E n \in DSNames : F_GarbageCollect(n)

---------------------------------------------------------------------------
(* SpecScope: a DevServer wrapper used with `with` (crds/devserver.py        *)
(* 254-302).  __enter__ is three calls, each a step: create, wait_for_ready  *)
(* and sync.  The code using the wrapper may also call delete() on the       *)
(* resource directly (crds/base.py:239-261).                                 *)

MaxEnters == 2

\* devserver.py:54: the default of wait_for_ready's timeout parameter
DefaultWaitTimeout == 60

\* devserver.py:43: wait_timeout given to the wrapper (300 is its default)
WaitTimeouts == {42, 300}

None == "None"

\* base.py:239-261: delete() sends the request and handles no exception; the
\* API answers 404 for an object that is gone
BaseDelete(exists, fails) ==
    IF fails = "api" THEN "api_error"
    ELSE IF fails = "other" THEN "exception"
    ELSE IF exists THEN "deleted" ELSE "not_found"

\* devserver.py:293-300: a 404 is swallowed; any other error is raised only
\* when the body ended without an exception
ExitRaises(answer, bodyExc) ==
    IF answer = "deleted" THEN FALSE
    ELSE IF answer = "not_found" THEN FALSE
    ELSE ~bodyExc

\* an __enter__ without the check of _context_resource
EnterAllowedAlways(ctx) == TRUE

\* devserver.py:259-260
EnterAllowed(ctx) == ctx = None

\* an __enter__ that waits with wait_for_ready's own default
WaitArgDefault(wait_timeout) == DefaultWaitTimeout

\* devserver.py:272: created.wait_for_ready(timeout=self.wait_timeout)
WaitArg(wait_timeout) == wait_timeout

ScopeInit ==
    /\ c_pc = "out"
    /\ c_ctx = None
    /\ c_obj = FALSE
    /\ c_timeout \in WaitTimeouts
    /\ c_created = 0
    /\ c_waited = 0
    /\ c_log = <<>>
    /\ c_result = "none"
    /\ c_answer = "none"
    /\ c_bodyExc = FALSE
    /\ c_attempts = 0
    /\ c_creates = 0
    /\ c_entered = 0
    /\ c_direct = "none"

\* devserver.py:259-270: __enter__ is called, outside a scope or inside the
\* body of the active one; the create call fails on an API error and on an
\* object of that name that exists already
SC_Enter(fails) ==
    /\ c_pc \in {"out", "body"}
    /\ c_attempts < MaxEnters
    /\ c_attempts' = c_attempts + 1
    /\ IF ~EnterAllowed(c_ctx)
       THEN /\ c_result' = "rejected"
            /\ UNCHANGED <<c_pc, c_obj, c_created, c_log, c_creates>>
       ELSE /\ c_creates' = c_creates + 1
            /\ c_log' = <<"create">>
            /\ IF fails \/ c_obj
               THEN /\ c_result' = "enter_failed"
                    /\ UNCHANGED <<c_pc, c_obj, c_created>>
               ELSE /\ c_obj' = TRUE
                    /\ c_created' = c_timeout
                    /\ c_pc' = "created"
                    /\ c_result' = "entering"
    /\ UNCHANGED <<c_ctx, c_timeout, c_waited, c_answer, c_bodyExc, c_entered, c_direct>>

\* devserver.py:272 and 54-85: wait_for_ready returns, or raises TimeoutError
\* or an ApiException; __enter__ has no handler for either
SC_Wait(answer) ==
    /\ c_pc = "created"
    /\ c_waited' = WaitArg(c_timeout)
    /\ c_log' = Append(c_log, "wait")
    /\ IF answer = "ready"
       THEN /\ c_pc' = "waited"
            /\ UNCHANGED c_result
       ELSE /\ c_pc' = "out"
            /\ c_result' = "enter_failed"
    /\ UNCHANGED <<c_ctx, c_obj, c_timeout, c_created, c_answer, c_bodyExc,
                   c_attempts, c_creates, c_entered, c_direct>>

\* devserver.py:273-276 and 135-161: sync, then the resource is stored and
\* returned
SC_Sync(fails) ==
    /\ c_pc = "waited"
    /\ c_log' = Append(c_log, "sync")
    /\ IF fails
       THEN /\ c_pc' = "out"
            /\ c_result' = "enter_failed"
            /\ UNCHANGED <<c_ctx, c_entered>>
       ELSE /\ c_ctx' = "created"
            /\ c_pc' = "body"
            /\ c_result' = "entered"
            /\ c_entered' = c_entered + 1
    /\ UNCHANGED <<c_obj, c_timeout, c_created, c_waited, c_answer, c_bodyExc,
                   c_attempts, c_creates, c_direct>>

\* devserver.py:278-302: the body ended, normally or with an exception
SC_Exit(bodyExc, fails) ==
    /\ c_pc = "body"
    /\ c_ctx # None
    /\ c_ctx' = None
    /\ c_bodyExc' = bodyExc
    /\ c_log' = Append(c_log, "delete")
    /\ LET answer == BaseDelete(c_obj, fails) IN
       /\ c_answer' = answer
       /\ c_obj' = IF answer = "deleted" THEN FALSE ELSE c_obj
       /\ c_result' = IF ExitRaises(answer, bodyExc) THEN "exit_raised" ELSE "exit_ok"
    /\ c_pc' = "out"
    /\ UNCHANGED <<c_timeout, c_created, c_waited, c_attempts, c_creates,
                   c_entered, c_direct>>

\* base.py:239-261: delete() called on the resource by the code that uses it
SC_Delete(fails) ==
    /\ c_pc \in {"out", "body"}
    /\ LET answer == BaseDelete(c_obj, fails) IN
       /\ c_obj' = IF answer = "deleted" THEN FALSE ELSE c_obj
       /\ c_direct' = IF answer = "deleted" THEN "returned" ELSE "raised_" \o answer
    /\ UNCHANGED <<c_pc, c_ctx, c_timeout, c_created, c_waited, c_log, c_result,
                   c_answer, c_bodyExc, c_attempts, c_creates, c_entered>>

ScopeNext ==
    \/ \E fails \in BOOLEAN : SC_Enter(fails)
    \/ \E answer \in {"ready", "timeout", "api_error"} : SC_Wait(answer)
    \/ \E fails \in BOOLEAN : SC_Sync(fails)
    \/ \E bodyExc \in BOOLEAN, fails \in {"no", "api", "other"} : SC_Exit(bodyExc, fails)
    \/ \E fails \in {"no", "api", "other"} : SC_Delete(fails)

---------------------------------------------------------------------------
(* Strings are sequences of one-character strings, as for durations.        *)
(* SpecVolumeName: _sanitize and _stable_volume_name (deployment.py:136-156)*)
(* applied to drawn claim names and mount paths.                            *)

LowerLetters == <<"a", "b", "c", "d", "e", "f", "g", "h", "i", "j", "k", "l", "m", "n", "o", "p", "q", "r", "s", "t", "u", "v", "w", "x", "y", "z">>
UpperLetters == <<"A", "B", "C", "D", "E", "F", "G", "H", "I", "J", "K", "L", "M", "N", "O", "P", "Q", "R", "S", "T", "U", "V", "W", "X", "Y", "Z">>
DigitChars == <<"0", "1", "2", "3", "4", "5", "6", "7", "8", "9">>
HexChars == <<"0", "1", "2", "3", "4", "5", "6", "7", "8", "9", "a", "b", "c", "d", "e", "f">>

Range(s) == {s[i] : i \in 1..Len(s)}

\* the characters the pattern [a-z0-9-] matches
NameChars == Range(LowerLetters) \cup Range(DigitChars) \cup {"-"}
AlnumChars == Range(LowerLetters) \cup Range(DigitChars)

\* str.lower() on one character
ToLower(c) ==
    IF c \in Range(UpperLetters)
    THEN LowerLetters[CHOOSE i \in 1..Len(UpperLetters) : UpperLetters[i] = c]
    ELSE c

Lower(s) == [i \in 1..Len(s) |-> ToLower(s[i])]

\* re.sub(r"[^a-z0-9-]", "-", s)
ReplaceOthers(s) == [i \in 1..Len(s) |-> IF s[i] \in NameChars THEN s[i] ELSE "-"]

\* re.sub(r"-+", "-", s): a hyphen that follows a hyphen is dropped
RECURSIVE CollapseRange(_, _, _)
CollapseRange(s, lo, hi) ==
    IF lo > hi THEN <<>>
    ELSE IF lo = hi
         THEN IF s[lo] = "-" /\ lo > 1 /\ s[lo - 1] = "-" THEN <<>> ELSE <<s[lo]>>
         ELSE LET mid == (lo + hi) \div 2
              IN  CollapseRange(s, lo, mid) \o CollapseRange(s, mid + 1, hi)

Collapse(s) == CollapseRange(s, 1, Len(s))

\* s.rstrip(c), s.lstrip(c) and s.strip(c)
RStrip(s, c) ==
    LET keep == {i \in 1..Len(s) : s[i] # c}
    IN  IF keep = {} THEN <<>>
        ELSE SubSeq(s, 1, CHOOSE i \in keep : \A j \in keep : j <= i)

LStrip(s, c) ==
    LET keep == {i \in 1..Len(s) : s[i] # c}
    IN  IF keep = {} THEN <<>>
        ELSE SubSeq(s, CHOOSE i \in keep : \A j \in keep : i <= j, Len(s))

Strip(s, c) == LStrip(RStrip(s, c), c)

\* deployment.py:136-138 _sanitize
Sanitize(value) == Strip(Collapse(ReplaceOthers(Lower(value))), "-")

\* deployment.py:148 the longest volume name returned as it is
MaxVolumeNameLen == 63

\* deployment.py:151 hexdigest()[:6]
HashLen == 6

\* position of a character in the alphabet of the model
CharCode(c) ==
    LET abc == LowerLetters \o UpperLetters \o DigitChars \o <<"-", "/", "_", ".">>
    IN  IF c \in Range(abc) THEN CHOOSE i \in 1..Len(abc) : abc[i] = c ELSE 0

RECURSIVE CheckSum(_, _, _)
CheckSum(s, lo, hi) ==
    IF lo > hi THEN 0
    ELSE IF lo = hi THEN (lo * 31 + 7) * (CharCode(s[lo]) + 1)
         ELSE LET mid == (lo + hi) \div 2
              IN  (CheckSum(s, lo, mid) + CheckSum(s, mid + 1, hi)) % 16777216

\* deployment.py:151 hashlib.sha1(raw_name.encode()).hexdigest()[:6].  SHA-1
\* itself is not computed: the digest is a checksum of the same shape, six
\* hexadecimal digits that the characters of raw_name determine.
Sha1Hex6(raw_name) ==
    LET h == CheckSum(raw_name, 1, Len(raw_name))
        digit(k) == (h \div (IF k = 1 THEN 1048576 ELSE IF k = 2 THEN 65536
                             ELSE IF k = 3 THEN 4096 ELSE IF k = 4 THEN 256
                             ELSE IF k = 5 THEN 16 ELSE 1)) % 16
    IN  [k \in 1..HashLen |-> HexChars[digit(k) + 1]]

Max(a, b) == IF a >= b THEN a ELSE b

\* the cut that forgets the hyphen that joins prefix and hash
TrimLenNoSeparator(hash_suffix) == Max(1, MaxVolumeNameLen - Len(hash_suffix))

\* deployment.py:152 trim_len = max(1, 63 - len(hash_suffix) - 1)
TrimLen(hash_suffix) == Max(1, MaxVolumeNameLen - Len(hash_suffix) - 1)

\* deployment.py:141-145 raw_name
RawName(claim_name, mount_path) ==
    LET sanitized_path ==
            Strip(Collapse(ReplaceOthers(Strip(Lower(mount_path), "/"))), "-")
        raw_name == <<"v", "o", "l", "-">> \o claim_name
    IN  IF sanitized_path # <<>> THEN raw_name \o <<"-">> \o sanitized_path ELSE raw_name

\* deployment.py:147 sanitized = _sanitize(raw_name) or "vol"
SanitizedName(raw_name) ==
    IF Sanitize(raw_name) = <<>> THEN <<"v", "o", "l">> ELSE Sanitize(raw_name)

\* deployment.py:140-156 _stable_volume_name
StableVolumeName(claim_name, mount_path) ==
    LET raw_name == RawName(claim_name, mount_path)
        sanitized == SanitizedName(raw_name)
        hash_suffix == Sha1Hex6(raw_name)
        trim_len == TrimLen(hash_suffix)
        cut == SubSeq(sanitized, 1, trim_len)
        prefix == IF RStrip(cut, "-") = <<>> THEN cut ELSE RStrip(cut, "-")
    IN  IF Len(sanitized) <= MaxVolumeNameLen THEN sanitized
        ELSE prefix \o <<"-">> \o hash_suffix

\* longest run of one character in a drawn claim name
MaxNameLen == 60

Rep(c, n) == [i \in 1..n |-> c]

NameLens == {0, 1, 2} \cup {n \in 0..MaxNameLen : n >= MaxNameLen - 12}

\* claim names: a run of one character, a joint, a tail
ClaimNames ==
    {Rep(c, n) \o mid \o Rep("b", m) :
        c \in {"a", "A", "_"}, n \in NameLens,
        mid \in {<<>>, <<"-">>, <<".", "-">>}, m \in {0, 1, 8}}

HomeMountPath == <<"/", "h", "o", "m", "e", "/", "d", "e", "v">>
DataMountPath == <<"/", "d", "a", "t", "a">>

NamePaths == {<<>>, <<"/">>, DataMountPath, HomeMountPath, <<"/", "M", "n", "t", "/", "d", "e", "e", "p", "_", "d", "i", "r", "/", "x", "-", "/">>}

VNameInit ==
    /\ n_claim \in ClaimNames
    /\ n_path \in NamePaths
    /\ n_name = <<>>
    /\ n_done = FALSE

VNameApply ==
    /\ ~n_done
    /\ n_name' = StableVolumeName(n_claim, n_path)
    /\ n_done' = TRUE
    /\ UNCHANGED <<n_claim, n_path>>

---------------------------------------------------------------------------
(* SpecBuild: build_deployment (deployment.py:6-216) applied to drawn specs  *)
(* and flavors.  The model keeps the container image, the volumes and the    *)
(* volume mounts of the main container.                                      *)

\* values of spec["image"]: key absent, "", None, or an image name
KeyAbsent == "<absent>"
EmptyString == "<empty>"
NullValue == "<None>"

ImageValues == {KeyAbsent, EmptyString, NullValue, OtherImage}

\* dict.get(key, default): the default only when the key is absent
DictGet(value, default) == IF value = KeyAbsent THEN default ELSE value

\* one entry of spec.volumes or of the flavor's volumes
VolumeEntry(claim, path, has, ro) ==
    [claimName |-> claim, mountPath |-> path, hasReadOnly |-> has, readOnly |-> ro]

ReadOnlyInputs == {<<FALSE, FALSE>>, <<TRUE, FALSE>>, <<TRUE, TRUE>>}

DevMountPath == <<"/", "d", "e", "v">>

\* the home directory and a path whose name ends like it
BuildPaths == {HomeMountPath, DevMountPath}

\* claim names of users; the flavor's claim
UserClaims == {<<"t", "e", "a", "m">>, <<"t", "e", "a", "m", "-", "h", "o", "m", "e">>}
FlavorClaim == <<"s", "h", "a", "r", "e", "d">>

\* deployment.py:63 the mount path of the built-in volume bin
BinMountPath == <<"/", "o", "p", "t", "/", "b", "i", "n">>

UserEntries ==
    {VolumeEntry(c, p, r[1], r[2]) :
        c \in UserClaims, p \in BuildPaths, r \in ReadOnlyInputs}
    \cup {VolumeEntry(<<"t", "e", "a", "m">>, BinMountPath, FALSE, FALSE)}

FlavorEntries ==
    {VolumeEntry(FlavorClaim, p, r[1], r[2]) :
        p \in BuildPaths, r \in {<<FALSE, FALSE>>, <<TRUE, TRUE>>}}

\* longest volume list of a drawn flavor
MaxFlavorVolumes == 2

ListsOf(entries, n) == UNION {[1..k -> entries] : k \in 0..n}

DistinctPaths(l) ==
    \A i \in 1..Len(l), j \in 1..Len(l) : i # j => l[i].mountPath # l[j].mountPath

\* spec.volumes as the handler lets it through: validate_volumes
\* (validation.py:35-60) has rejected a list that repeats a mountPath
UserVolumeLists == {l \in ListsOf(UserEntries, MaxVolumes) : DistinctPaths(l)}

FlavorVolumeLists == ListsOf(FlavorEntries, MaxFlavorVolumes)

BuildSpecs ==
    {[image |-> i, hasVolumes |-> TRUE, volumes |-> l] :
        i \in ImageValues, l \in UserVolumeLists}
    \cup {[image |-> i, hasVolumes |-> FALSE, volumes |-> <<>>] : i \in ImageValues}

BuildFlavors ==
    {[hasVolumes |-> TRUE, volumes |-> l] : l \in FlavorVolumeLists}
    \cup {[hasVolumes |-> FALSE, volumes |-> <<>>]}

HomeName == <<"h", "o", "m", "e">>

\* deployment.py:61-87 the volume mounts every main container starts with; a
\* mount without the key readOnly is a read-write mount
DefaultMounts ==
    <<[name |-> HomeName, mountPath |-> HomeMountPath, readOnly |-> FALSE],
      [name |-> <<"b", "i", "n">>, mountPath |-> <<"/", "o", "p", "t", "/", "b", "i", "n">>, readOnly |-> FALSE],
      [name |-> <<"s", "t", "a", "r", "t", "u", "p", "-", "s", "c", "r", "i", "p", "t">>, mountPath |-> <<"/", "d", "e", "v", "s", "e", "r", "v", "e", "r">>, readOnly |-> TRUE],
      [name |-> <<"l", "o", "g", "i", "n", "-", "s", "c", "r", "i", "p", "t">>, mountPath |-> <<"/", "d", "e", "v", "s", "e", "r", "v", "e", "r", "-", "l", "o", "g", "i", "n", "/", "u", "s", "e", "r", "_", "l", "o", "g", "i", "n", ".", "s", "h">>,
       readOnly |-> TRUE],
      [name |-> <<"s", "s", "h", "d", "-", "c", "o", "n", "f", "i", "g">>, mountPath |-> <<"/", "o", "p", "t", "/", "s", "s", "h", "/", "s", "s", "h", "d", "_", "c", "o", "n", "f", "i", "g">>, readOnly |-> TRUE],
      [name |-> <<"h", "o", "s", "t", "-", "k", "e", "y", "s">>, mountPath |-> <<"/", "o", "p", "t", "/", "s", "s", "h", "/", "h", "o", "s", "t", "k", "e", "y", "s">>, readOnly |-> TRUE]>>

NoClaim == <<>>

\* deployment.py:97-124 the volumes every pod starts with
DefaultVolumes ==
    <<[name |-> <<"b", "i", "n">>, kind |-> "emptyDir", claimName |-> NoClaim],
      [name |-> <<"s", "t", "a", "r", "t", "u", "p", "-", "s", "c", "r", "i", "p", "t">>, kind |-> "configMap", claimName |-> NoClaim],
      [name |-> <<"l", "o", "g", "i", "n", "-", "s", "c", "r", "i", "p", "t">>, kind |-> "configMap", claimName |-> NoClaim],
      [name |-> <<"s", "s", "h", "d", "-", "c", "o", "n", "f", "i", "g">>, kind |-> "configMap", claimName |-> NoClaim],
      [name |-> <<"h", "o", "s", "t", "-", "k", "e", "y", "s">>, kind |-> "secret", claimName |-> NoClaim]>>

\* deployment.py:173
HomeEmptyDir == [name |-> HomeName, kind |-> "emptyDir", claimName |-> NoClaim]

\* {v["mountPath"]: v for v in entries} laid over a dict: a key keeps the
\* place of its first entry and takes the value of its last
RECURSIVE OverlayFrom(_, _, _)
OverlayFrom(acc, entries, i) ==
    IF i > Len(entries) THEN acc
    ELSE LET v == entries[i]
             at == {k \in 1..Len(acc) : acc[k].mountPath = v.mountPath}
         IN  IF at = {} THEN OverlayFrom(Append(acc, v), entries, i + 1)
             ELSE OverlayFrom([acc EXCEPT ![CHOOSE k \in at : TRUE] = v], entries, i + 1)

Overlay(acc, entries) == OverlayFrom(acc, entries, 1)

\* a merge in which the flavor's entry wins
MergedVolumesFlavorWins(flavor_volumes, user_volumes) ==
    Overlay(Overlay(<<>>, user_volumes), Overlay(<<>>, flavor_volumes))

\* deployment.py:162-164 merged_volumes and final_volumes
MergedVolumes(flavor_volumes, user_volumes) ==
    Overlay(Overlay(<<>>, flavor_volumes), Overlay(<<>>, user_volumes))

\* deployment.py:167-169 home_volume_specified
HomeVolumeSpecified(final_volumes) ==
    \E i \in 1..Len(final_volumes) : final_volumes[i].mountPath = HomeMountPath

\* a builder that adds the emptyDir only when nothing is merged
KeepsHomeEmptyDirOnlyWhenEmpty(final_volumes) == final_volumes = <<>>

\* deployment.py:171 if not final_volumes or not home_volume_specified
KeepsHomeEmptyDir(final_volumes) ==
    final_volumes = <<>> \/ ~HomeVolumeSpecified(final_volumes)

\* deployment.py:193 read_only = volume.get("readOnly", False)
ReadOnlyOf(volume) == IF volume.hasReadOnly THEN volume.readOnly ELSE FALSE

\* deployment.py:15, 158-207 build_deployment
BuildDeployment(spec, flavor) ==
    LET final_volumes == MergedVolumes(flavor.volumes, spec.volumes)
        home_volume_specified == HomeVolumeSpecified(final_volumes)
        names == [i \in 1..Len(final_volumes) |->
                     StableVolumeName(final_volumes[i].claimName,
                                      final_volumes[i].mountPath)]
        kept == IF final_volumes # <<>> /\ home_volume_specified
                THEN SelectSeq(DefaultMounts, LAMBDA vm : vm.name # HomeName)
                ELSE DefaultMounts
    IN  [image |-> DictGet(spec.image, DefaultImage),
         volumes |->
            DefaultVolumes
            \o (IF KeepsHomeEmptyDir(final_volumes)
                THEN <<HomeEmptyDir>> ELSE <<>>)
            \o [i \in 1..Len(final_volumes) |->
                   [name |-> names[i], kind |-> "persistentVolumeClaim",
                    claimName |-> final_volumes[i].claimName]],
         mounts |->
            kept
            \o [i \in 1..Len(final_volumes) |->
                   [name |-> names[i], mountPath |-> final_volumes[i].mountPath,
                    readOnly |-> ReadOnlyOf(final_volumes[i])]]]

NoBuild == [image |-> KeyAbsent, volumes |-> <<>>, mounts |-> <<>>]

BuildInit ==
    /\ b_spec \in BuildSpecs
    /\ b_flavor \in BuildFlavors
    /\ b_out = NoBuild
    /\ b_done = FALSE

BuildApply ==
    /\ ~b_done
    /\ b_out' = BuildDeployment(b_spec, b_flavor)
    /\ b_done' = TRUE
    /\ UNCHANGED <<b_spec, b_flavor>>

---------------------------------------------------------------------------
(* SpecStartup: the operator process.  Importing operator/operator.py        *)
(* builds the OperatorConfig (operator/config.py) and the interval constants *)
(* of the module; kopf then runs on_startup.  A command-line process calls   *)
(* configure_kube_client (utils/kube.py) with or without a kubeconfig path.  *)

IntKeys == {"expirationInterval", "flavorReconciliationInterval", "workerLimit"}
BoolKeys == {"postingEnabled"}
StrKeys == {"defaultDevserverImage", "staticDependenciesImage"}
ConfigKeys == IntKeys \cup BoolKeys \cup StrKeys

\* an environment variable that is not set
Unset == <<"<unset>">>

\* values the environment gives to the DEVSERVER_ variable of a key
EnvValues(k) ==
    CASE k = "expirationInterval" -> {Unset, <<"3", "0", "0">>}
      [] k = "flavorReconciliationInterval" -> {Unset, <<"9", "0">>}
      [] k = "workerLimit" -> {Unset, <<"1", "0">>}
      [] k = "postingEnabled" -> {Unset, <<"T", "r", "u", "e">>, <<"0">>}
      [] k = "defaultDevserverImage" -> {Unset, <<"e", "n", "v", "-", "i", "m", "a", "g", "e", ":", "l", "a", "t", "e", "s", "t">>}
      [] k = "staticDependenciesImage" -> {Unset, <<"e", "n", "v", "-", "s", "t", "a", "t", "i", "c", ":", "l", "a", "t", "e", "s", "t">>}

Envs ==
    {[expirationInterval |-> a, flavorReconciliationInterval |-> b, workerLimit |-> c,
      postingEnabled |-> d, defaultDevserverImage |-> e, staticDependenciesImage |-> f] :
        a \in EnvValues("expirationInterval"),
        b \in EnvValues("flavorReconciliationInterval"),
        c \in EnvValues("workerLimit"), d \in EnvValues("postingEnabled"),
        e \in EnvValues("defaultDevserverImage"),
        f \in EnvValues("staticDependenciesImage")}

\* values of the keys in a config file that has them
FileInt(k) ==
    CASE k = "expirationInterval" -> 120
      [] k = "flavorReconciliationInterval" -> 180
      [] k = "workerLimit" -> 5

FileBool(k) == TRUE

FileStr(k) ==
    CASE k = "defaultDevserverImage" -> <<"m", "y", "-", "c", "u", "s", "t", "o", "m", "-", "i", "m", "a", "g", "e", ":", "l", "a", "t", "e", "s", "t">>
      [] k = "staticDependenciesImage" -> <<"m", "y", "-", "c", "u", "s", "t", "o", "m", "-", "s", "t", "a", "t", "i", "c", "-", "i", "m", "a", "g", "e", ":", "l", "a", "t", "e", "s", "t">>

\* config.py:9-14 the built-in defaults
DefaultInt(k) ==
    CASE k = "expirationInterval" -> 60
      [] k = "flavorReconciliationInterval" -> 60
      [] k = "workerLimit" -> 1

DefaultBool(k) == FALSE

DefaultStr(k) ==
    CASE k = "defaultDevserverImage" -> <<"s", "e", "e", "m", "e", "t", "h", "e", "r", "e", "/", "d", "e", "v", "s", "e", "r", "v", "e", "r", "-", "b", "a", "s", "e", ":", "l", "a", "t", "e", "s", "t">>
      [] k = "staticDependenciesImage" ->
            <<"s", "e", "e", "m", "e", "t", "h", "e", "r", "e", "/", "d", "e", "v", "s", "e", "r", "v", "e", "r", "-", "s", "t", "a", "t", "i", "c", "-", "d", "e", "p", "e", "n", "d", "e", "n", "c", "i", "e", "s", ":", "l", "a", "t", "e", "s", "t">>

\* the config file: missing, empty, unreadable, or a mapping with some keys
FileKeySets == {{}} \cup {{k} : k \in ConfigKeys} \cup {ConfigKeys}

ConfigFiles ==
    {[state |-> s, keys |-> {}] : s \in {"missing", "empty", "unreadable"}}
    \cup {[state |-> "mapping", keys |-> ks] : ks \in FileKeySets}

\* config.py:68-83 _load_config: the keys of the mapping it returns
LoadConfig(file) == IF file.state = "mapping" THEN file.keys ELSE {}

\* int(str) for a string of decimal digits
RECURSIVE IntOfStrFrom(_, _, _)
IntOfStrFrom(s, i, acc) ==
    IF i > Len(s) THEN acc ELSE IntOfStrFrom(s, i + 1, acc * 10 + DigitValue(s[i]))

IntOfStr(s) == IntOfStrFrom(s, 1, 0)

\* str(bool)
StrOfBool(b) == IF b THEN <<"T", "r", "u", "e">> ELSE <<"F", "a", "l", "s", "e">>

\* config.py:24-25 get_bool applied to str(value)
GetBool(str) == Lower(str) \in {<<"t", "r", "u", "e">>, <<"1">>, <<"t">>}

\* a lookup in which the config file hides the environment
SourceFileFirst(env_value, in_file) ==
    IF in_file THEN "file" ELSE IF env_value # Unset THEN "env" ELSE "default"

\* config.py:63 os.environ.get(env_key, self._config.get(yaml_key, default))
Source(env_value, in_file) ==
    IF env_value # Unset THEN "env" ELSE IF in_file THEN "file" ELSE "default"

\* config.py:62-66 _get_value with caster=int, caster=get_bool and no caster
GetInt(env, config, k) ==
    LET src == Source(env[k], k \in config)
    IN  IF src = "env" THEN IntOfStr(env[k])
        ELSE IF src = "file" THEN FileInt(k) ELSE DefaultInt(k)

GetFlag(env, config, k) ==
    LET src == Source(env[k], k \in config)
    IN  IF src = "env" THEN GetBool(env[k])
        ELSE IF src = "file" THEN GetBool(StrOfBool(FileBool(k)))
        ELSE GetBool(StrOfBool(DefaultBool(k)))

GetStr(env, config, k) ==
    LET src == Source(env[k], k \in config)
    IN  IF src = "env" THEN env[k]
        ELSE IF src = "file" THEN FileStr(k) ELSE DefaultStr(k)

\* config.py:18-60 OperatorConfig.__init__
OperatorConfig(env, file) ==
    LET config == LoadConfig(file)
    IN  [ints |-> [k \in IntKeys |-> GetInt(env, config, k)],
         flags |-> [k \in BoolKeys |-> GetFlag(env, config, k)],
         strs |-> [k \in StrKeys |-> GetStr(env, config, k)]]

NoConfig ==
    [ints |-> [k \in IntKeys |-> 0], flags |-> [k \in BoolKeys |-> FALSE],
     strs |-> [k \in StrKeys |-> <<>>]]

\* operator.py:40-41 EXPIRATION_INTERVAL and FLAVOR_RECONCILIATION_INTERVAL
ModuleInterval(env, k) == IF env[k] # Unset THEN IntOfStr(env[k]) ELSE 60

NoSettings == [worker_limit |-> 0, posting |-> TRUE]

\* operator.py:65-67 logs operator_config.default_persistent_home_size.  The
\* configuration schema with defaultPersistentHomeSize is not part of
\* operator/config.py as it stands; with that schema the line reads the
\* attribute, logs it and goes on.
StartupLogRaises == FALSE

\* a start that reads the local kubeconfig before the in-cluster credentials
ClientSourceKubeconfigFirst(incluster_ok, kubeconfig_ok) ==
    IF kubeconfig_ok THEN [tried |-> <<"kubeconfig">>, source |-> "kubeconfig"]
    ELSE IF incluster_ok
         THEN [tried |-> <<"kubeconfig", "in-cluster">>, source |-> "in-cluster"]
         ELSE [tried |-> <<"kubeconfig", "in-cluster">>, source |-> "none"]

\* operator.py:53-62 load_incluster_config, then load_kube_config
ClientSource(incluster_ok, kubeconfig_ok) ==
    IF incluster_ok THEN [tried |-> <<"in-cluster">>, source |-> "in-cluster"]
    ELSE IF kubeconfig_ok
         THEN [tried |-> <<"in-cluster", "kubeconfig">>, source |-> "kubeconfig"]
         ELSE [tried |-> <<"in-cluster", "kubeconfig">>, source |-> "none"]

\* kube.py:16-76 configure_kube_client
ConfigureKubeClient(path_given, path_ok, incluster_ok, kubeconfig_ok) ==
    IF path_given
    THEN [tried |-> <<"path">>, result |-> IF path_ok THEN "kubeconfig" ELSE "error"]
    ELSE IF incluster_ok THEN [tried |-> <<"in-cluster">>, result |-> "in-cluster"]
    ELSE IF kubeconfig_ok
         THEN [tried |-> <<"in-cluster", "kubeconfig">>, result |-> "kubeconfig"]
         ELSE [tried |-> <<"in-cluster", "kubeconfig">>, result |-> "error"]

NoCall == [given |-> FALSE, path_ok |-> FALSE, tried |-> <<>>, result |-> "none"]

\* which credentials the machine offers: a service-account token in the pod,
\* a kubeconfig at the default place
KubeEnvs == [incluster : BOOLEAN, kubeconfig : BOOLEAN]

StartInit ==
    /\ s_env \in Envs
    /\ s_file \in ConfigFiles
    /\ s_kube \in KubeEnvs
    /\ s_pc = "import"
    /\ s_cfg = NoConfig
    /\ s_mod = [k \in {"expirationInterval", "flavorReconciliationInterval"} |-> 0]
    /\ s_tried = <<>>
    /\ s_client = "none"
    /\ s_settings = NoSettings
    /\ s_tasks = {}
    /\ s_lib = NoCall

\* config.py:87 and operator.py:28, 40-41: what importing the operator does
S_Import ==
    /\ s_pc = "import"
    /\ s_cfg' = OperatorConfig(s_env, s_file)
    /\ s_mod' = [k \in DOMAIN s_mod |-> ModuleInterval(s_env, k)]
    /\ s_pc' = "loaded"
    /\ UNCHANGED <<s_env, s_file, s_kube, s_tried, s_client, s_settings, s_tasks,
                   s_lib>>

\* operator.py:44-97 on_startup
S_OnStartup ==
    /\ s_pc = "loaded"
    /\ LET c == ClientSource(s_kube.incluster, s_kube.kubeconfig)
       IN  /\ s_tried' = c.tried
           /\ s_client' = c.source
           /\ IF c.source = "none" \/ StartupLogRaises
              THEN /\ s_pc' = "fatal"
                   /\ UNCHANGED <<s_settings, s_tasks>>
              ELSE /\ s_pc' = "running"
                   /\ s_settings' = [worker_limit |-> 1, posting |-> FALSE]
                   /\ s_tasks' =
                        {[task |-> "cleanup_expired_devservers",
                          interval |-> s_mod["expirationInterval"]],
                         [task |-> "reconcile_flavors_periodically",
                          interval |-> s_mod["flavorReconciliationInterval"]]}
    /\ UNCHANGED <<s_env, s_file, s_kube, s_cfg, s_mod, s_lib>>

\* kube.py:16-76: one call of the helper by a command-line process
S_ConfigureKubeClient(path_given, path_ok) ==
    /\ s_pc # "parked"
    /\ s_lib = NoCall
    /\ LET r == ConfigureKubeClient(path_given, path_ok, s_kube.incluster,
                                    s_kube.kubeconfig)
       IN  s_lib' = [given |-> path_given, path_ok |-> path_ok, tried |-> r.tried,
                     result |-> r.result]
    /\ UNCHANGED <<s_env, s_file, s_kube, s_pc, s_cfg, s_mod, s_tried, s_client,
                   s_settings, s_tasks>>

StartNext ==
    \/ S_Import
    \/ S_OnStartup
    \/ \E given \in BOOLEAN, ok \in BOOLEAN : S_ConfigureKubeClient(given, ok)

---------------------------------------------------------------------------
(* DevServerUserReconciler.reconcile: one DevServerUser and the objects    *)
(* provisioned for it.  operator/devserveruser/ is imported by operator.py *)
(* and is not part of the sources; the steps are those of section 4.6 of   *)
(* the specification, the API calls those tests/test_operator.py expects.  *)

Usernames == {"alice", "bob"}

\* "dev-" + username, kept as the pair of its parts
UserNamespaceOf(u) == <<"dev", u>>

\* username + "-sa"
ServiceAccountOf(u) == <<u, "sa">>

UserKinds == {"Namespace", "ServiceAccount", "Role", "RoleBinding"}

\* a role binding that names the user alone
RoleBindingSubjectsUserOnly(u) ==
    {[kind |-> "User", name |-> <<u>>, namespace |-> <<>>]}

\* the two subjects of the role binding
RoleBindingSubjects(u) ==
    {[kind |-> "User", name |-> <<u>>, namespace |-> <<>>],
     [kind |-> "ServiceAccount", name |-> ServiceAccountOf(u),
      namespace |-> UserNamespaceOf(u)]}

\* the body the reconciler builds for each object
UserObject(kind, u) ==
    [kind |-> kind,
     name |-> CASE kind = "Namespace" -> UserNamespaceOf(u)
                [] kind = "ServiceAccount" -> ServiceAccountOf(u)
                [] OTHER -> <<u>>,
     namespace |-> IF kind = "Namespace" THEN <<>> ELSE UserNamespaceOf(u),
     subjects |-> IF kind = "RoleBinding" THEN RoleBindingSubjects(u) ELSE {}]

\* an object of the kind left by an earlier run or by another client
StaleObject(kind, u) == [UserObject(kind, u) EXCEPT !.subjects = {}]

NoUserResult == [namespace |-> <<>>]

UserInit ==
    /\ u_name \in Usernames
    /\ \E present \in SUBSET UserKinds :
          u_cluster = {StaleObject(k, u_name) : k \in present}
    /\ u_start = {o.kind : o \in u_cluster}
    /\ u_calls = <<>>
    /\ u_pc = "namespace"
    /\ u_result = NoUserResult

\* the object of the kind that is in the cluster, if any
UserHas(kind) == \E o \in u_cluster : o.kind = kind

\* create; the answer 409 of an object that exists is taken as success
UserCreateOrKeep(kind, next) ==
    /\ u_calls' = Append(u_calls, <<"create", kind>>)
    /\ u_cluster' = IF UserHas(kind) THEN u_cluster
                    ELSE u_cluster \cup {UserObject(kind, u_name)}
    /\ u_pc' = next
    /\ UNCHANGED <<u_name, u_start, u_result>>

\* read; 404 leads to create, an object that exists is patched with the body
UserReadThenWrite(kind, next) ==
    /\ u_calls' = u_calls \o
          (IF UserHas(kind) THEN <<<<"read", kind>>, <<"patch", kind>>>>
           ELSE <<<<"read", kind>>, <<"create", kind>>>>)
    /\ u_cluster' = {o \in u_cluster : o.kind # kind}
                       \cup {UserObject(kind, u_name)}
    /\ u_pc' = next
    /\ UNCHANGED <<u_name, u_start, u_result>>

\* step 2: the namespace
U_Namespace ==
    /\ u_pc = "namespace"
    /\ UserCreateOrKeep("Namespace", "serviceaccount")

\* step 3: the service account
U_ServiceAccount ==
    /\ u_pc = "serviceaccount"
    /\ UserCreateOrKeep("ServiceAccount", "role")

\* step 4: the role
U_Role ==
    /\ u_pc = "role"
    /\ UserReadThenWrite("Role", "rolebinding")

\* step 5: the role binding
U_RoleBinding ==
    /\ u_pc = "rolebinding"
    /\ UserReadThenWrite("RoleBinding", "result")

\* step 6: the result carries the resolved namespace
U_Result ==
    /\ u_pc = "result"
    /\ u_result' = [namespace |-> UserNamespaceOf(u_name)]
    /\ u_pc' = "done"
    /\ UNCHANGED <<u_name, u_start, u_cluster, u_calls>>

UserNext ==
    \/ U_Namespace
    \/ U_ServiceAccount
    \/ U_Role
    \/ U_RoleBinding
    \/ U_Result

---------------------------------------------------------------------------
(* DevServer.wait_for_ready: the caller of wait_for_status({"phase":       *)
(* "Running"}) followed by the polling of the pod <name>-0.  The steps of  *)
(* wait_for_status are those of the machine above, run on a DevServer.     *)

\* crds/devserver.py:58: status={"phase": "Running"}
WantRunning == [phase |-> "Running"]

\* the DevServer as the API returns it while it is brought up
ReadyObjects == {[has |-> FALSE, st |-> EmptyDict],
                 [has |-> TRUE, st |-> [phase |-> "Pending"]],
                 [has |-> TRUE, st |-> [phase |-> "Running"]]}

\* the `timeout` argument: whole seconds
ReadyTimeouts == {TicksPerSecond, 2 * TicksPerSecond}

\* answers of read_namespaced_pod: an error status, or the ready flags of
\* pod.status.container_statuses (<<>> for None and for the empty list)
PodNotFound == [code |-> 404, statuses |-> <<>>]

PodAnswers == {PodNotFound, [code |-> 500, statuses |-> <<>>]}
                 \cup {[code |-> 200, statuses |-> s] :
                          s \in {<<>>, <<TRUE, FALSE>>, <<TRUE, TRUE>>}}

\* a test that takes all() alone, which an empty list passes
AllContainersReadyOrNone(pod) ==
    /\ pod.code = 200
    /\ \A i \in 1..Len(pod.statuses) : pod.statuses[i]

\* crds/devserver.py:72-74: container_statuses and all(cs.ready for cs in ...)
AllContainersReady(pod) ==
    /\ pod.code = 200
    /\ pod.statuses # <<>>
    /\ \A i \in 1..Len(pod.statuses) : pod.statuses[i]

\* a loop that re-raises every ApiException of the pod read
PodReadRaisesAlways(pod) == pod.code # 200

\* crds/devserver.py:76-78: except ApiException as e: if e.status != 404: raise
PodReadRaises(pod) == pod.code \notin {200, 404}

ReadyInit ==
    /\ g_pc = "call"
    /\ g_timeout \in ReadyTimeouts
    /\ g_start = 0
    /\ g_pod = PodNotFound
    /\ g_slept = 0
    /\ g_reads = <<>>
    /\ w_pc = "call"
    /\ w_want = WantRunning
    /\ w_timeout = g_timeout
    /\ w_start = 0
    /\ w_now = 0
    /\ w_status = EmptyDict
    /\ w_live = [has |-> FALSE, st |-> EmptyDict]
    /\ w_deadline = 0
    /\ w_had = FALSE
    /\ w_event = NoEvent
    /\ w_recv = <<>>
    /\ w_yield = <<>>
    /\ w_log = <<>>
    /\ w_namespaced = TRUE

\* crds/devserver.py:56-57: start = time.time()
G_Call ==
    /\ g_pc = "call"
    /\ g_start' = w_now
    /\ g_pc' = "status"
    /\ UNCHANGED <<g_timeout, g_pod, g_slept, g_reads>>
    /\ UNCHANGED waitVars

\* crds/devserver.py:58-60: the for statement drives the generator
G_Status ==
    /\ g_pc = "status"
    /\ \/ WFS_Entry
       \/ WFS_While
       \/ WFS_Watch
       \/ \E e \in ReadyObjects : WFS_Recv(e)
       \/ WFS_Close
       \/ WFS_Final
    /\ UNCHANGED readyVars

\* crds/devserver.py:61-65: the loop body after each yielded event, then the
\* generator is resumed
G_Body ==
    /\ g_pc = "status"
    /\ w_pc = "yielded"
    /\ IF w_now - g_start > g_timeout
       THEN /\ g_pc' = "raised_timeout"
            /\ UNCHANGED <<g_timeout, g_start, g_pod, g_slept, g_reads>>
            /\ UNCHANGED waitVars
       ELSE /\ WFS_Resume
            /\ UNCHANGED readyVars

\* crds/devserver.py:58-66: wait_for_status has returned or raised
G_StatusEnded ==
    /\ g_pc = "status"
    /\ w_pc \in {"returned", "raised_timeout", "raised_api"}
    /\ g_pc' = IF w_pc = "returned" THEN "pod" ELSE w_pc
    /\ UNCHANGED <<g_timeout, g_start, g_pod, g_slept, g_reads>>
    /\ UNCHANGED waitVars

\* crds/devserver.py:69-83: one turn of the polling loop up to time.sleep(1),
\* and the TimeoutError after the loop
G_PodLoop ==
    /\ g_pc = "pod"
    /\ IF w_now - g_start < g_timeout
       THEN /\ g_reads' = Append(g_reads, [answer |-> g_pod, at |-> w_now])
            /\ IF AllContainersReady(g_pod)
               THEN g_pc' = "returned" /\ UNCHANGED g_slept
               ELSE IF PodReadRaises(g_pod)
               THEN g_pc' = "raised_api" /\ UNCHANGED g_slept
               ELSE g_pc' = "sleep" /\ g_slept' = w_now
       ELSE /\ g_pc' = "raised_timeout"
            /\ UNCHANGED <<g_slept, g_reads>>
    /\ UNCHANGED <<g_timeout, g_start, g_pod>>
    /\ UNCHANGED waitVars

\* crds/devserver.py:79: time.sleep(1) is over
G_Wake ==
    /\ g_pc = "sleep"
    /\ w_now - g_slept >= TicksPerSecond
    /\ g_pc' = "pod"
    /\ UNCHANGED <<g_timeout, g_start, g_pod, g_slept, g_reads>>
    /\ UNCHANGED waitVars

\* time.time() advances
G_Tick ==
    /\ g_pc \notin {"returned", "raised_timeout", "raised_api"}
    /\ WaitTick
    /\ UNCHANGED readyVars

\* the operator writes the status of the DevServer
G_ServerUpdate(o) ==
    /\ g_pc = "status"
    /\ ServerUpdate(o)
    /\ UNCHANGED readyVars

\* the kubelet and the StatefulSet controller change the pod; a change is
\* seen by the next read only, so one change before each read is followed
G_PodChange(p) ==
    /\ \/ g_pc = "sleep"
       \/ g_pc = "pod" /\ g_reads = <<>>
    /\ p # g_pod
    /\ g_pod' = p
    /\ UNCHANGED <<g_pc, g_timeout, g_start, g_slept, g_reads>>
    /\ UNCHANGED waitVars

ReadyNext ==
    \/ G_Call
    \/ G_Status
    \/ G_Body
    \/ G_StatusEnded
    \/ G_PodLoop
    \/ G_Wake
    \/ G_Tick
    \/ \E o \in ReadyObjects : G_ServerUpdate(o)
    \/ \E p \in PodAnswers : G_PodChange(p)

---------------------------------------------------------------------------
(* Machines that a specification does not run are parked in a fixed state. *)

FnParked ==
    /\ fn_subset = EmptyDict
    /\ fn_superset = EmptyDict
    /\ fn_result = FALSE
    /\ fn_done = TRUE

WaitParked ==
    /\ w_pc = "parked"
    /\ w_want = EmptyDict
    /\ w_timeout = 0
    /\ w_start = 0
    /\ w_now = 0
    /\ w_status = EmptyDict
    /\ w_live = NoEvent
    /\ w_deadline = 0
    /\ w_had = FALSE
    /\ w_event = NoEvent
    /\ w_recv = <<>>
    /\ w_yield = <<>>
    /\ w_log = <<>>
    /\ w_namespaced = TRUE

RecParked ==
    /\ r_spec = NoSpec
    /\ r_flavors = {}
    /\ r_cluster = {}
    /\ r_pc = "parked"
    /\ r_i = 0
    /\ r_writes = <<>>
    /\ r_flavorGet = "none"
    /\ r_outcome = "none"
    /\ r_patch = "none"
    /\ r_phase = "none"
    /\ r_env = 0
    /\ r_image = NoImage
    /\ r_start = NoStart
    /\ r_err = "none"
    /\ r_keys = "none"

ExpParked ==
    /\ x_ds = [n \in DSNames |-> NoDS]
    /\ x_now = 0
    /\ x_pc = "parked"
    /\ x_tasks = {}
    /\ x_erred = FALSE
    /\ x_count = 0
    /\ x_ret = NoReturn

ScopeParked ==
    /\ c_pc = "parked"
    /\ c_ctx = None
    /\ c_obj = FALSE
    /\ c_timeout = 0
    /\ c_created = 0
    /\ c_waited = 0
    /\ c_log = <<>>
    /\ c_result = "none"
    /\ c_answer = "none"
    /\ c_bodyExc = FALSE
    /\ c_attempts = 0
    /\ c_creates = 0
    /\ c_entered = 0
    /\ c_direct = "none"

FrameParked ==
    /\ f_calls = {}
    /\ f_pvcs = {}
    /\ f_kids = {}
    /\ f_handled = {}

VNameParked ==
    /\ n_claim = <<>>
    /\ n_path = <<>>
    /\ n_name = <<>>
    /\ n_done = TRUE

BuildParked ==
    /\ b_spec = [image |-> KeyAbsent, hasVolumes |-> FALSE, volumes |-> <<>>]
    /\ b_flavor = [hasVolumes |-> FALSE, volumes |-> <<>>]
    /\ b_out = NoBuild
    /\ b_done = TRUE

StartParked ==
    /\ s_env = [k \in ConfigKeys |-> Unset]
    /\ s_file = [state |-> "missing", keys |-> {}]
    /\ s_kube = [incluster |-> FALSE, kubeconfig |-> FALSE]
    /\ s_pc = "parked"
    /\ s_cfg = NoConfig
    /\ s_mod = [k \in {"expirationInterval", "flavorReconciliationInterval"} |-> 0]
    /\ s_tried = <<>>
    /\ s_client = "none"
    /\ s_settings = NoSettings
    /\ s_tasks = {}
    /\ s_lib = NoCall

UserParked ==
    /\ u_name = ""
    /\ u_cluster = {}
    /\ u_start = {}
    /\ u_calls = <<>>
    /\ u_pc = "parked"
    /\ u_result = NoUserResult

ReadyParked ==
    /\ g_pc = "parked"
    /\ g_timeout = 0
    /\ g_start = 0
    /\ g_pod = "absent"
    /\ g_slept = 0
    /\ g_reads = <<>>

---------------------------------------------------------------------------
(* Specifications *)

SubsetInit ==
    /\ FnInit /\ WaitParked /\ RecParked /\ ExpParked /\ ScopeParked
    /\ FrameParked /\ VNameParked /\ BuildParked /\ StartParked /\ UserParked /\ ReadyParked
SubsetNext ==
    /\ FnApply
    /\ UNCHANGED <<waitVars, recVars, expVars, scopeVars, frameVars, vnameVars,
                   buildVars, startVars,
                   userVars, readyVars>>
SpecSubset == SubsetInit /\ [][SubsetNext]_vars

WaitSpecInit ==
    /\ WaitInit /\ FnParked /\ RecParked /\ ExpParked /\ ScopeParked
    /\ FrameParked /\ VNameParked /\ BuildParked /\ StartParked /\ UserParked /\ ReadyParked
WaitSpecNext ==
    /\ WaitNext
    /\ UNCHANGED <<fnVars, recVars, expVars, scopeVars, frameVars, vnameVars,
                   buildVars, startVars,
                   userVars, readyVars>>
SpecWait == WaitSpecInit /\ [][WaitSpecNext]_vars

RecSpecInit ==
    /\ RecInit /\ FnParked /\ WaitParked /\ ExpParked /\ ScopeParked
    /\ FrameParked /\ VNameParked /\ BuildParked /\ StartParked /\ UserParked /\ ReadyParked
RecSpecNext ==
    /\ RecNext
    /\ UNCHANGED <<fnVars, waitVars, expVars, scopeVars, frameVars, vnameVars,
                   buildVars, startVars,
                   userVars, readyVars>>
SpecReconcile == RecSpecInit /\ [][RecSpecNext]_vars

ExpSpecInit ==
    /\ ExpInit /\ FnParked /\ WaitParked /\ RecParked /\ ScopeParked
    /\ FrameParked /\ VNameParked /\ BuildParked /\ StartParked /\ UserParked /\ ReadyParked
ExpSpecNext ==
    /\ ExpNext
    /\ UNCHANGED <<fnVars, waitVars, recVars, scopeVars, frameVars, vnameVars,
                   buildVars, startVars,
                   userVars, readyVars>>
SpecExpire == ExpSpecInit /\ [][ExpSpecNext]_vars

ScopeSpecInit ==
    /\ ScopeInit /\ FnParked /\ WaitParked /\ RecParked /\ ExpParked
    /\ FrameParked /\ VNameParked /\ BuildParked /\ StartParked /\ UserParked /\ ReadyParked
ScopeSpecNext ==
    /\ ScopeNext
    /\ UNCHANGED <<fnVars, waitVars, recVars, expVars, frameVars, vnameVars,
                   buildVars, startVars,
                   userVars, readyVars>>
SpecScope == ScopeSpecInit /\ [][ScopeSpecNext]_vars

FrameSpecInit ==
    /\ ExpInit /\ FrameInit /\ FnParked /\ WaitParked /\ RecParked /\ ScopeParked
    /\ VNameParked /\ BuildParked /\ StartParked /\ UserParked /\ ReadyParked
FrameSpecNext ==
    /\ FrameNext
    /\ UNCHANGED <<fnVars, waitVars, recVars, scopeVars, vnameVars, buildVars,
                   startVars,
                   userVars, readyVars>>
SpecFrame == FrameSpecInit /\ [][FrameSpecNext]_vars

VNameSpecInit ==
    /\ VNameInit /\ FnParked /\ WaitParked /\ RecParked /\ ExpParked /\ ScopeParked
    /\ FrameParked /\ BuildParked /\ StartParked /\ UserParked /\ ReadyParked
VNameSpecNext ==
    /\ VNameApply
    /\ UNCHANGED <<fnVars, waitVars, recVars, expVars, scopeVars, frameVars,
                   buildVars, startVars,
                   userVars, readyVars>>
SpecVolumeName == VNameSpecInit /\ [][VNameSpecNext]_vars

BuildSpecInit ==
    /\ BuildInit /\ FnParked /\ WaitParked /\ RecParked /\ ExpParked /\ ScopeParked
    /\ FrameParked /\ VNameParked /\ StartParked /\ UserParked /\ ReadyParked
BuildSpecNext ==
    /\ BuildApply
    /\ UNCHANGED <<fnVars, waitVars, recVars, expVars, scopeVars, frameVars,
                   vnameVars, startVars,
                   userVars, readyVars>>
SpecBuild == BuildSpecInit /\ [][BuildSpecNext]_vars

StartSpecInit ==
    /\ StartInit /\ FnParked /\ WaitParked /\ RecParked /\ ExpParked /\ ScopeParked
    /\ FrameParked /\ VNameParked /\ BuildParked /\ UserParked /\ ReadyParked
StartSpecNext ==
    /\ StartNext
    /\ UNCHANGED <<fnVars, waitVars, recVars, expVars, scopeVars, frameVars,
                   vnameVars, buildVars,
                   userVars, readyVars>>
SpecStartup == StartSpecInit /\ [][StartSpecNext]_vars

UserSpecInit ==
    /\ UserInit /\ FnParked /\ WaitParked /\ RecParked /\ ExpParked /\ ScopeParked
    /\ FrameParked /\ VNameParked /\ BuildParked /\ StartParked /\ ReadyParked
UserSpecNext ==
    /\ UserNext
    /\ UNCHANGED <<fnVars, waitVars, recVars, expVars, scopeVars, frameVars,
                   vnameVars, buildVars, startVars, readyVars>>
SpecUser == UserSpecInit /\ [][UserSpecNext]_vars

ReadySpecInit ==
    /\ ReadyInit /\ FnParked /\ RecParked /\ ExpParked /\ ScopeParked
    /\ FrameParked /\ VNameParked /\ BuildParked /\ StartParked /\ UserParked
ReadySpecNext ==
    /\ ReadyNext
    /\ UNCHANGED <<fnVars, recVars, expVars, scopeVars, frameVars, vnameVars,
                   buildVars, startVars, userVars>>
SpecReady == ReadySpecInit /\ [][ReadySpecNext]_vars

\* The loop is a task of the operator's event loop and `while True` never
\* leaves it, so a sweep that can start does start; the claim's proviso is
\* that list calls and the delete call for a DevServer do not fail forever.
SweepListSucceeds ==
    /\ SweepList(FALSE)
    /\ UNCHANGED <<fnVars, waitVars, recVars, scopeVars, frameVars, vnameVars,
                   buildVars, startVars,
                   userVars, readyVars>>

DeleteSucceeds(n) ==
    /\ \E t \in AllTasks : t.name = n /\ DeleteCall(t, FALSE)
    /\ UNCHANGED <<fnVars, waitVars, recVars, scopeVars, frameVars, vnameVars,
                   buildVars, startVars,
                   userVars, readyVars>>

FairSpecExpire ==
    /\ SpecExpire
    /\ WF_vars(SweepListSucceeds)
    /\ \A n \in DSNames : SF_vars(DeleteSucceeds(n))

---------------------------------------------------------------------------

\* The caller of wait_for_status iterates the generator to its end and the
\* clock advances; the proviso of the claim is that a watch stream has ended
\* once the timeout_seconds it was opened with have passed.
StreamTimesOut ==
    /\ w_now >= w_deadline
    /\ WFS_Close
    /\ UNCHANGED <<fnVars, recVars, expVars, scopeVars, frameVars, vnameVars,
                   buildVars, startVars, userVars, readyVars>>

GeneratorStep ==
    /\ WFS_While \/ WFS_Watch \/ WFS_Resume \/ WFS_Final
    /\ UNCHANGED <<fnVars, recVars, expVars, scopeVars, frameVars, vnameVars,
                   buildVars, startVars, userVars, readyVars>>

ClockAdvances ==
    /\ WaitTick
    /\ UNCHANGED <<fnVars, recVars, expVars, scopeVars, frameVars, vnameVars,
                   buildVars, startVars, userVars, readyVars>>

FairSpecWait ==
    /\ SpecWait
    /\ WF_vars(GeneratorStep)
    /\ WF_vars(StreamTimesOut)
    /\ WF_vars(ClockAdvances)

(* Claims about create_or_update_devserver *)

\* a timeToLive that is set and is not a positive duration of at most 7 days
TTLNotAllowed(ttl) ==
    /\ ttl # <<>>
    /\ \/ ParseDuration(ttl) = ParseError
       \/ ParseDuration(ttl) <= 0
       \/ ParseDuration(ttl) > 7 * 24 * 60 * 60

\* an entry that is no object, lacks a mountPath or repeats an earlier one
VolumesNotAllowed(volumes) ==
    \E i \in 1..Len(volumes) :
        \/ ~volumes[i].isDict
        \/ ~volumes[i].hasPath
        \/ volumes[i].mountPath = ""
        \/ \E j \in 1..(i - 1) : volumes[j].mountPath = volumes[i].mountPath

RejectedWithoutWrite ==
    /\ r_pc = "done"
    /\ r_outcome = "permanent"
    /\ r_writes = <<>>

\* C1: an event whose spec fails validation, or whose flavor does not exist,
\* ends with a permanent error and the invocation issues no write at all.
Thm_C1_InvalidSpecRejectedBeforeAnyWrite ==
    /\ (r_pc \notin {"idle", "parked"}
          /\ (TTLNotAllowed(r_spec.ttl) \/ VolumesNotAllowed(r_spec.volumes)))
       => RejectedWithoutWrite
    /\ r_flavorGet = "not_found" => RejectedWithoutWrite

Wit_C1_DuplicateMountPathRejected ==
    /\ RejectedWithoutWrite
    /\ Len(r_spec.volumes) = 2
    /\ r_spec.volumes[1] = Mount("/home/dev")
    /\ r_spec.volumes[2] = Mount("/home/dev")
    /\ r_cluster = {}

\* every ConfigMap, the Service(s) and the workload were written
AllReconciled(spec, writes) ==
    /\ ConfigMapIds \subseteq Written(writes)
    /\ "headless_service" \in Written(writes)
    /\ spec.enableSSH => "ssh_service" \in Written(writes)
    /\ Workload \in Written(writes)

\* C2: phase Running is written only by the step that ends an invocation in
\* which every ConfigMap, the Service(s) and the workload were created or
\* patched without error, and at that step the workload exists.
Thm_C2_RunningOnlyAfterAllChildrenWritten ==
    [][ /\ (r_patch' = "Running" /\ r_patch # "Running") =>
              /\ r_pc' = "done"
              /\ r_outcome' = "running"
              /\ AllReconciled(r_spec', r_writes')
              /\ Workload \in r_cluster'
        /\ (r_outcome' = "running" /\ r_outcome # "running") =>
              /\ r_patch' = "Running"
              /\ r_phase' = "Running"
              /\ AllReconciled(r_spec', r_writes')
              /\ Workload \in r_cluster'
        /\ (r_phase' = "Running" /\ r_phase # "Running") => r_outcome' = "running"
      ]_vars

Wit_C2_RunningAfterCreatesAndPatches ==
    /\ r_pc = "done"
    /\ r_outcome = "running"
    /\ r_patch = "Running"
    /\ r_spec.enableSSH
    /\ \E k \in 1..Len(r_writes) : r_writes[k] = [op |-> "create", obj |-> Workload]
    /\ \E k \in 1..Len(r_writes) : r_writes[k].op = "patch"

\* C11: a create that fails because another actor created the object between
\* the read and the create (already-exists, 409) is followed by a re-read and
\* a patch; it never ends the reconcile with an error.
Orig_C11_CreateConflictRereadsAndPatches ==
    ~(r_pc = "done" /\ r_err = "conflict")

\* C12: an invocation that ends with a permanent error (invalid timeToLive,
\* invalid or duplicate volumes, unknown flavor) leaves the DevServer with
\* status.phase = Failed.
Orig_C12_PermanentErrorSetsFailedPhase ==
    (r_pc = "done" /\ r_outcome = "permanent")
        => (r_patch = "Failed" /\ r_phase = "Failed")

\* C13: the handler ends with a permanent error only for a validation failure
\* or a flavor that is not found; every other API error, at the flavor read or
\* at the read, patch or create of a child, ends it with a retryable error and
\* the invocation writes no failure to the status.
Thm_C13_PermanentOnlyForValidationOrFlavor ==
    /\ r_outcome = "permanent" =>
          /\ r_err \in {"invalid_ttl", "invalid_volumes", "flavor_not_found"}
          /\ \/ TTLNotAllowed(r_spec.ttl)
             \/ VolumesNotAllowed(r_spec.volumes)
             \/ r_spec.flavor \notin r_flavors
    /\ r_err \in {"api", "conflict"} =>
          /\ r_outcome = "transient"
          /\ r_patch = "none"
    /\ r_flavorGet = "error" => r_outcome = "transient"

Wit_C13_ChildApiErrorIsRetryable ==
    /\ r_pc = "done"
    /\ r_outcome = "transient"
    /\ r_err = "api"
    /\ r_flavorGet = "found"
    /\ "headless_service" \in Written(r_writes)
    /\ Workload \notin Written(r_writes)

\* C14: an invocation writes a ConfigMap, a Service or the workload only after
\* it ensured the host-key Secret; the Secret is the first object it writes;
\* an invocation in which ensuring the Secret failed ends there and writes no
\* child.
Thm_C14_HostKeysEnsuredBeforeChildren ==
    /\ (Written(r_writes) \ {HostKeySecret}) # {} => r_keys = "ensured"
    /\ \A k \in 1..Len(r_writes) : r_writes[k].obj = HostKeySecret => k = 1
    /\ r_pc \in {"read", "patch", "create"} => r_keys = "ensured"
    /\ r_keys = "failed" =>
          /\ r_pc = "done"
          /\ r_outcome = "transient"
          /\ r_writes = <<>>

Wit_C14_SecretCreatedThenWorkload ==
    /\ Len(r_writes) >= 2
    /\ r_writes[1] = [op |-> "create", obj |-> HostKeySecret]
    /\ Last(r_writes).obj = Workload
    /\ r_keys = "ensured"

\* the objects written before the k-th write of the invocation
WrittenBefore(k) == {r_writes[j].obj : j \in 1..(k - 1)}

\* the Services the spec asks for
ServicesOf(spec) == {"headless_service"} \cup (IF spec.enableSSH THEN {"ssh_service"} ELSE {})

\* C15: within an invocation every ConfigMap is written before any Service
\* and every Service the spec asks for before the workload; the workload is
\* read only then, and an invocation that fails at an earlier child leaves
\* the workload unwritten.
Thm_C15_ConfigMapsThenServicesThenWorkload ==
    /\ \A k \in 1..Len(r_writes) :
          /\ r_writes[k].obj \in ServiceIds => ConfigMapIds \subseteq WrittenBefore(k)
          /\ r_writes[k].obj = Workload =>
                (ConfigMapIds \cup ServicesOf(r_spec)) \subseteq WrittenBefore(k)
    /\ (r_pc \in {"read", "patch", "create"} /\ ChildPlan(r_spec)[r_i] = Workload) =>
          (ConfigMapIds \cup ServicesOf(r_spec)) \subseteq Written(r_writes)
    /\ (r_pc = "done" /\ r_outcome = "transient"
          /\ ~((ConfigMapIds \cup ServicesOf(r_spec)) \subseteq Written(r_writes)))
       => Workload \notin Written(r_writes)

Wit_C15_ServiceFailedWorkloadUnwritten ==
    /\ r_pc = "done"
    /\ r_outcome = "transient"
    /\ r_spec.enableSSH
    /\ ConfigMapIds \subseteq Written(r_writes)
    /\ "headless_service" \in Written(r_writes)
    /\ "ssh_service" \notin Written(r_writes)
    /\ Workload \notin Written(r_writes)

\* the invocation began with the workload in the cluster and no other actor
\* took a step since
UpdateOfExistingWorkload ==
    /\ Workload \in r_start.cluster
    /\ r_env = r_start.env

\* C16: an invocation that finds the workload patches it: the patch is its
\* last write, the stored workload then has the image of the new spec (the
\* default image when the spec names none), and the invocation neither
\* creates a workload nor removes the existing one.
Thm_C16_UpdatePatchesWorkloadInPlace ==
    /\ \A k \in 1..Len(r_writes) :
          r_writes[k] = [op |-> "patch", obj |-> Workload] =>
              /\ k = Len(r_writes)
              /\ Workload \in r_cluster
              /\ r_spec.image # NoImage => r_image = r_spec.image
              /\ r_spec.image = NoImage => r_image = DefaultImage
    /\ (r_pc = "done" /\ r_outcome = "running" /\ UpdateOfExistingWorkload) =>
          /\ Last(r_writes) = [op |-> "patch", obj |-> Workload]
          /\ \A k \in 1..Len(r_writes) : r_writes[k] # [op |-> "create", obj |-> Workload]
    /\ (r_pc # "idle" /\ UpdateOfExistingWorkload) => Workload \in r_cluster

Wit_C16_ImageChangedByPatch ==
    /\ r_pc = "done"
    /\ r_outcome = "running"
    /\ UpdateOfExistingWorkload
    /\ r_start.image = DefaultImage
    /\ r_spec.image = OtherImage
    /\ r_image = OtherImage
    /\ Last(r_writes) = [op |-> "patch", obj |-> Workload]

\* the cluster as a successful reconcile of the same spec leaves it, with no
\* step of another actor since the invocation began
ReconciledBefore ==
    /\ HostKeySecret \in r_start.cluster
    /\ \A k \in 1..Len(ChildPlan(r_spec)) : ChildPlan(r_spec)[k] \in r_start.cluster
    /\ r_start.image = (IF r_spec.image = NoImage THEN DefaultImage ELSE r_spec.image)
    /\ r_env = r_start.env

---------------------------------------------------------------------------
(* Claims about the expiration loop *)

\* the TTL is set and the instant lies strictly after creation + TTL
PastExpiry(ttl, created, now) ==
    /\ ttl # <<>>
    /\ ParseDuration(ttl) # ParseError
    /\ now > created + ParseDuration(ttl)

\* C3: a sweep issues a delete for a DevServer only if its timeToLive is set
\* and the sweep's time is strictly after creationTimestamp + timeToLive; a
\* DevServer without TTL, or not yet expired, is never deleted by the sweep.
Thm_C3_DeleteOnlyPastExpiry ==
    /\ \A t \in x_tasks :
          /\ PastExpiry(t.ttl, t.created, t.at)
          /\ t.at <= x_now
          /\ t.ttl = x_ds[t.name].ttl
          /\ t.created = x_ds[t.name].created
    /\ \A n \in DSNames :
          x_ds[n].st = "expired" => PastExpiry(x_ds[n].ttl, x_ds[n].created, x_now)

Wit_C3_ExpiredDeletedOthersKept ==
    /\ x_ds["ds-a"].st = "expired"
    /\ x_ds["ds-b"].st = "live"
    /\ x_ds["ds-b"].ttl = <<>>
    /\ x_ds["ds-b"].created = 0
    /\ x_now = MaxClock
    /\ x_pc = "sleep"
    /\ x_tasks = {}

\* C4: a DevServer with a TTL that is in the cluster past its expiry is
\* eventually deleted, even though sweeps may end with an API error.
Thm_C4_ExpiredEventuallyDeleted ==
    \A n \in DSNames :
        (x_ds[n].st = "live" /\ PastExpiry(x_ds[n].ttl, x_ds[n].created, x_now))
            ~> (x_ds[n].st # "live")

Wit_C4_DeletedAfterFailedSweep ==
    /\ x_erred
    /\ \E n \in DSNames : x_ds[n].st = "expired"

---------------------------------------------------------------------------
(* Claims about wait_for_status *)

\* positions of the log that hold op
LogAt(op) == {i \in 1..Len(w_log) : w_log[i] = op}

\* C5: if the refresh at entry already subset-matches, the call completes
\* after exactly that one refresh, opens no watch and yields no event.
Thm_C5_EntryMatchReturnsAtOnce ==
    (w_log # <<>> /\ w_log[1] = "R+") =>
        /\ w_pc = "returned"
        /\ w_log = <<"R+">>
        /\ w_recv = <<>>
        /\ w_yield = <<>>

Wit_C5_EntryMatched ==
    /\ w_pc = "returned"
    /\ w_log = <<"R+">>
    /\ IsStatusSubset(w_want, w_status)

\* C6: every event received from the watch is yielded to the caller, in the
\* order received and before its status is evaluated; none is dropped, and
\* the event that triggers the return was yielded first.
Thm_C6_EveryEventYieldedInOrder ==
    /\ w_yield = w_recv
    /\ Cardinality(LogAt("Y")) = Len(w_recv)
    /\ \A i \in LogAt("E+") \cup LogAt("E-") : i > 1 /\ w_log[i - 1] = "Y"
    /\ w_pc = "yielded" => (w_yield # <<>> /\ Last(w_yield) = w_event /\ Last(w_log) = "Y")

Wit_C6_TwoEventsThenReturn ==
    /\ w_pc = "returned"
    /\ Len(w_yield) = 2
    /\ w_yield[1] # w_yield[2]
    /\ ~EventMatches(w_want, w_yield[1])
    /\ EventMatches(w_want, w_yield[2])

\* C7: the call returns normally only when a refresh made inside the call
\* matched; a matching event triggers one refresh and the call goes on
\* consuming events when that refresh does not match; a non-matching event
\* triggers no refresh.
Thm_C7_ReturnOnlyOnConfirmedRefresh ==
    /\ w_pc = "returned" => (w_log # <<>> /\ Last(w_log) = "R+"
                             /\ IsStatusSubset(w_want, w_status))
    /\ \A i \in LogAt("E+") : i < Len(w_log) /\ w_log[i + 1] \in Refreshes
    /\ \A i \in LogAt("E-") : i < Len(w_log) => w_log[i + 1] \notin Refreshes
    /\ \A i \in LogAt("E+") :
          (i < Len(w_log) /\ w_log[i + 1] = "R-") =>
             (w_pc # "returned" \/ i + 1 < Len(w_log))
    /\ \A i \in LogAt("E+") :
          (i + 1 = Len(w_log) /\ w_log[i + 1] = "R-") => w_pc = "watching"

Wit_C7_UnconfirmedThenConfirmed ==
    /\ w_pc = "returned"
    /\ \E i \in LogAt("E+") : w_log[i + 1] = "R-"
    /\ \E i \in LogAt("E+") : w_log[i + 1] = "R+"

\* C8: once the timeout has elapsed without a confirmed match the call makes
\* exactly one final refresh and check: TimeoutError if and only if that
\* status does not match, normal return if it does.
Thm_C8_FinalRefreshDecides ==
    /\ w_pc = "final" => w_timeout - (w_now - w_start) < TicksPerSecond
    /\ \A i \in LogAt("F") :
          /\ i + 1 = Len(w_log)
          /\ w_log[i + 1] \in Refreshes
          /\ w_log[i + 1] = "R+" <=> w_pc = "returned"
          /\ w_log[i + 1] = "R-" <=> w_pc = "raised_timeout"
    /\ w_pc = "raised_timeout" =>
          /\ Len(w_log) >= 2
          /\ w_log[Len(w_log) - 1] = "F"
          /\ ~IsStatusSubset(w_want, w_status)
    /\ (w_pc = "returned" /\ LogAt("F") # {}) => IsStatusSubset(w_want, w_status)

Wit_C8_TimeoutAfterWatch ==
    /\ w_pc = "raised_timeout"
    /\ LogAt("W") # {}
    /\ LogAt("Y") # {}

\* C9 as stated: every watch is opened right after a refresh and check, also
\* when the stream that closed before it had delivered events.
Orig_C9_RefreshBeforeEveryWatch ==
    \A i \in LogAt("W") : i > 1 /\ w_log[i - 1] = "R-"

\* events delivered by the stream that closed at position i of the log
StreamHadEvents(i) ==
    LET opened == CHOOSE j \in LogAt("W") :
                     j < i /\ \A k \in LogAt("W") : k < i => k <= j
    IN \E k \in opened..i : w_log[k] = "Y"

\* C9 (amended): a stream that closes having delivered no event is followed
\* by a refresh and check before the next watch is opened; a stream that
\* delivered at least one event is followed by no refresh, and the next watch
\* is opened directly.
Thm_C9_RefreshAfterEmptyStreamOnly ==
    \A i \in LogAt("C") :
        IF StreamHadEvents(i)
        THEN i < Len(w_log) => w_log[i + 1] \notin Refreshes
        ELSE i < Len(w_log) /\ w_log[i + 1] \in Refreshes

Wit_C9_EmptyStreamRefreshedThenRewatched ==
    \E i \in LogAt("C") :
        /\ ~StreamHadEvents(i)
        /\ i + 2 <= Len(w_log)
        /\ w_log[i + 1] = "R-"
        /\ w_log[i + 2] = "W"

---------------------------------------------------------------------------
(* Claims about _is_status_subset *)

\* C10: _is_status_subset(subset, superset) is true if and only if every
\* (key, value) of subset is in superset with an equal value; the empty
\* subset matches every superset, the empty one included.
Orig_C10_SubsetIffEveryPairPresent ==
    fn_done => (fn_result <=> DictSubset(fn_subset, fn_superset))

---------------------------------------------------------------------------
(* Claims about the DevServer scope and delete() *)

\* C18: every delete treats not-found as success: a direct call of delete()
\* on an object that is gone returns without raising, and so does the delete
\* issued when a scope is exited.
Orig_C18_EveryDeleteTreatsNotFoundAsSuccess ==
    /\ c_direct # "raised_not_found"
    /\ c_answer = "not_found" => c_result # "exit_raised"

\* C19: inside the body the scope has made exactly one create call, then one
\* readiness wait with the wrapper's wait_timeout, then the sync, and the
\* created resource carries that wait_timeout; once the scope is left,
\* however the body ended, exactly one delete call has followed them.
Thm_C19_ScopeCreatesWaitsThenDeletesOnce ==
    /\ c_pc = "body" =>
          /\ c_log = <<"create", "wait", "sync">>
          /\ c_waited = c_timeout
          /\ c_created = c_timeout
          /\ c_ctx # None
    /\ c_result \in {"exit_ok", "exit_raised"} =>
          /\ c_log = <<"create", "wait", "sync", "delete">>
          /\ c_waited = c_timeout
          /\ c_pc = "out"
          /\ c_ctx = None

Wit_C19_DeletedAfterBodyException ==
    /\ c_result = "exit_ok"
    /\ c_bodyExc
    /\ c_answer = "deleted"
    /\ c_timeout = 42
    /\ c_waited = 42
    /\ c_log = <<"create", "wait", "sync", "delete">>

\* C20: once the wrapper has been entered, no later call of __enter__ creates
\* anything or enters again, neither while the scope is active nor after it
\* has been exited.
Orig_C20_NoEntryAfterFirst ==
    [][c_entered >= 1 =>
          /\ c_creates' = c_creates
          /\ c_entered' = c_entered
          /\ c_attempts' > c_attempts => c_result' = "rejected"
      ]_vars

\* C20 (amended): a call of __enter__ made while a scope of the wrapper is
\* active is rejected and changes nothing; a call made when no scope is
\* active, also after an earlier scope was exited, is not rejected and makes
\* a create call.
Thm_C20_ReentryRejectedWhileActive ==
    [][c_attempts' > c_attempts =>
          IF c_ctx # None
          THEN /\ c_result' = "rejected"
               /\ c_creates' = c_creates
               /\ c_obj' = c_obj
               /\ c_ctx' = c_ctx
               /\ c_log' = c_log
               /\ c_pc' = c_pc
          ELSE /\ c_result' # "rejected"
               /\ c_creates' = c_creates + 1
      ]_vars

Wit_C20_RejectedInsideActiveScope ==
    /\ c_result = "rejected"
    /\ c_pc = "body"
    /\ c_ctx # None
    /\ c_creates = 1
    /\ c_entered = 1

---------------------------------------------------------------------------
(* Claims about what the sweep and the delete handler touch *)

ReadVerbs == {"list", "get"}

\* C21: the only write the expiration sweep and the delete handler issue is
\* the delete of a DevServer custom resource, and the sweep issues it; the
\* delete handler issues no request at all.  No PersistentVolumeClaim is ever
\* removed, and a workload is removed only after its DevServer is gone.
Thm_C21_OnlyDevServersAreDeleted ==
    /\ \A q \in f_calls :
          q.verb \notin ReadVerbs =>
              q.verb = "delete" /\ q.kind = "DevServer" /\ q.by = "sweep"
    /\ f_pvcs = DSNames
    /\ \A n \in DSNames : x_ds[n].st = "live" => n \in f_kids

\* one DevServer expired and one deleted by its user, both handled by the
\* delete handler, the workload of the expired one collected, both claims kept
Wit_C21_ClaimsSurviveExpiryAndDeletion ==
    \E n \in DSNames, m \in DSNames :
        /\ x_ds[n].st = "expired" /\ x_ds[m].st = "gone"
        /\ {n, m} \subseteq f_handled
        /\ {n, m} \subseteq f_pvcs
        /\ n \notin f_kids
        /\ [by |-> "sweep", verb |-> "delete", kind |-> "DevServer"] \in f_calls

---------------------------------------------------------------------------
(* Claims about build_deployment *)

HasHomeEmptyDir(out) == \E j \in 1..Len(out.volumes) : out.volumes[j] = HomeEmptyDir

HomeMounted(out) ==
    \E i \in 1..Len(out.mounts) :
        out.mounts[i].name = HomeName /\ out.mounts[i].mountPath = HomeMountPath

\* the mount i of the container is backed by a claim: a volume of the pod
\* with the name of the mount is a persistentVolumeClaim volume
PvcBacked(out, i) ==
    \E j \in 1..Len(out.volumes) :
        /\ out.volumes[j].name = out.mounts[i].name
        /\ out.volumes[j].kind = "persistentVolumeClaim"

\* the mount i is backed by the claim of the entry v and by no other claim
BackedByEntry(out, i, v) ==
    /\ PvcBacked(out, i)
    /\ \A j \in 1..Len(out.volumes) :
          out.volumes[j].name = out.mounts[i].name =>
              /\ out.volumes[j].kind = "persistentVolumeClaim"
              /\ out.volumes[j].claimName = v.claimName
    /\ out.mounts[i].readOnly = (v.hasReadOnly /\ v.readOnly)

MountsAt(out, path) == {i \in 1..Len(out.mounts) : out.mounts[i].mountPath = path}

\* C22 (as stated): the image of the main container is spec.image when the
\* DevServer sets one, and the operator's default image when the key is
\* absent, empty or null.
Orig_C22_ImageIsSpecOrDefault ==
    b_done =>
        b_out.image = IF b_spec.image \in {KeyAbsent, EmptyString, NullValue}
                      THEN DefaultImage ELSE b_spec.image

\* C23 (as stated): without spec.volumes the workload has the emptyDir home
\* mounted at /home/dev and no claim mounted there, whatever the flavor.
Orig_C23_NoSpecVolumesMeansEmptyDirHome ==
    (b_done /\ b_spec.volumes = <<>>) =>
        /\ HasHomeEmptyDir(b_out)
        /\ HomeMounted(b_out)
        /\ \A i \in MountsAt(b_out, HomeMountPath) : ~PvcBacked(b_out, i)

FlavorHasHome == \E k \in 1..Len(b_flavor.volumes) :
                    b_flavor.volumes[k].mountPath = HomeMountPath

\* C23 (amended): without spec.volumes, and with a flavor that declares no
\* volume at /home/dev, the workload has the emptyDir home mounted at
\* /home/dev and no claim mounted there.
Thm_C23_EmptyDirHomeUnlessFlavorMountsHome ==
    (b_done /\ b_spec.volumes = <<>> /\ ~FlavorHasHome) =>
        /\ HasHomeEmptyDir(b_out)
        /\ HomeMounted(b_out)
        /\ \A i \in MountsAt(b_out, HomeMountPath) : ~PvcBacked(b_out, i)

\* no spec.volumes, a flavor with a claim at /dev only: the emptyDir home is
\* there next to the flavor's claim
Wit_C23_EmptyDirHomeNextToFlavorVolume ==
    /\ b_done /\ ~b_spec.hasVolumes /\ b_flavor.volumes # <<>> /\ ~FlavorHasHome
    /\ HasHomeEmptyDir(b_out) /\ HomeMounted(b_out)
    /\ \E i \in MountsAt(b_out, DevMountPath) : PvcBacked(b_out, i)

\* C24 (as stated): with a spec.volumes entry at /home/dev there is no
\* emptyDir home and no mount named home; exactly one mount is at /home/dev
\* and it is backed by the claim of that entry with its readOnly flag; every
\* other entry is mounted at its mountPath, backed by its claim, with its flag.
Orig_C24_HomeEntryReplacesEmptyDir ==
    (b_done /\ \E k \in 1..Len(b_spec.volumes) :
                   b_spec.volumes[k].mountPath = HomeMountPath) =>
        /\ ~HasHomeEmptyDir(b_out)
        /\ \A i \in 1..Len(b_out.mounts) : b_out.mounts[i].name # HomeName
        /\ \A k \in 1..Len(b_spec.volumes) :
              /\ Cardinality(MountsAt(b_out, b_spec.volumes[k].mountPath)) = 1
              /\ \A i \in MountsAt(b_out, b_spec.volumes[k].mountPath) :
                    BackedByEntry(b_out, i, b_spec.volumes[k])

\* the entries the loop of build_deployment mounted: the k-th claim volume
\* and the k-th mount appended after the default mounts belong together
PvcVolumes(out) == SelectSeq(out.volumes, LAMBDA v : v.kind = "persistentVolumeClaim")

Mounted(out) ==
    LET pv == PvcVolumes(out)
        first == Len(out.mounts) - Len(pv)
    IN  {[claimName |-> pv[k].claimName,
          mountPath |-> out.mounts[first + k].mountPath,
          readOnly |-> out.mounts[first + k].readOnly] : k \in 1..Len(pv)}

EntryOf(v) ==
    [claimName |-> v.claimName, mountPath |-> v.mountPath,
     readOnly |-> (v.hasReadOnly /\ v.readOnly)]

PathsOf(l) == {l[k].mountPath : k \in 1..Len(l)}

\* the last entry of the list l at the mount path p
LastAt(l, p) ==
    l[CHOOSE k \in 1..Len(l) :
        /\ l[k].mountPath = p
        /\ \A j \in 1..Len(l) : l[j].mountPath = p => j <= k]

\* C25: the mounted entries are the flavor's volumes overlaid by the spec's,
\* keyed by mountPath: every spec entry is mounted, a flavor entry is mounted
\* only at a path the spec does not use, each path is mounted once, and when
\* no mounted entry is at /home/dev the emptyDir home and its mount are kept.
Thm_C25_SpecVolumesOverlayFlavorVolumes ==
    b_done =>
        /\ Mounted(b_out) =
              {EntryOf(b_spec.volumes[k]) : k \in 1..Len(b_spec.volumes)}
              \cup {EntryOf(LastAt(b_flavor.volumes, p)) :
                      p \in PathsOf(b_flavor.volumes) \ PathsOf(b_spec.volumes)}
        /\ \A m1 \in Mounted(b_out), m2 \in Mounted(b_out) :
              m1.mountPath = m2.mountPath => m1 = m2
        /\ Cardinality(Mounted(b_out)) = Len(PvcVolumes(b_out))
        /\ (\A m \in Mounted(b_out) : m.mountPath # HomeMountPath) =>
              HasHomeEmptyDir(b_out) /\ HomeMounted(b_out)

\* flavor and spec both name /dev with different claims, the flavor twice;
\* nobody names /home/dev: the spec's claim is at /dev, the emptyDir is kept
Wit_C25_SpecEntryReplacesFlavorEntry ==
    /\ b_done
    /\ Len(b_flavor.volumes) = 2
    /\ PathsOf(b_flavor.volumes) = {DevMountPath}
    /\ PathsOf(b_spec.volumes) = {DevMountPath}
    /\ Mounted(b_out) = {EntryOf(b_spec.volumes[1])}
    /\ HasHomeEmptyDir(b_out) /\ HomeMounted(b_out)

---------------------------------------------------------------------------
(* Claims about _stable_volume_name *)

\* C26: the generated volume name is not empty, has at most 63 characters,
\* all of them lower-case letters, digits or hyphens, the first and the last
\* not a hyphen.  When the sanitised raw name has more than 63 characters the
\* result is its first 56 characters without their trailing hyphens, a
\* hyphen, and the 6 hex digits of the hash of the raw name.
Thm_C26_VolumeNameIsValidLabel ==
    n_done =>
        LET raw == RawName(n_claim, n_path)
            full == Sanitize(raw)
            len == Len(n_name)
            prefix == SubSeq(n_name, 1, len - 7)
        IN  /\ len >= 1 /\ len <= 63
            /\ \A i \in 1..len : n_name[i] \in NameChars
            /\ n_name[1] \in AlnumChars /\ n_name[len] \in AlnumChars
            /\ Len(full) > 63 =>
                  /\ len >= 8
                  /\ Len(prefix) <= 56
                  /\ prefix = SubSeq(full, 1, Len(prefix))
                  /\ prefix[Len(prefix)] # "-"
                  /\ \A i \in (Len(prefix) + 1)..56 : full[i] = "-"
                  /\ n_name[len - 6] = "-"
                  /\ SubSeq(n_name, len - 5, len) = Sha1Hex6(raw)
                  /\ \A i \in (len - 5)..len : n_name[i] \in Range(HexChars)
            /\ Len(full) <= 63 /\ full # <<>> => n_name = full

\* a 60-character claim name whose cut ends in a hyphen: the hyphen is
\* stripped and the name is shorter than 63 characters
Wit_C26_LongNameCutAndHashed ==
    /\ n_done
    /\ Len(n_claim) >= 60
    /\ Len(Sanitize(RawName(n_claim, n_path))) > 63
    /\ Len(n_name) < 63
    /\ Sanitize(RawName(n_claim, n_path))[56] = "-"

---------------------------------------------------------------------------
(* Claims about the operator's configuration and startup *)

Loaded == s_pc \in {"loaded", "running", "fatal"}

InFile(k) == s_file.state = "mapping" /\ k \in s_file.keys

\* what the values of the environment mean
EnvInt(k) ==
    CASE k = "expirationInterval" -> 300
      [] k = "flavorReconciliationInterval" -> 90
      [] k = "workerLimit" -> 10

EnvFlag(v) == v = <<"T", "r", "u", "e">>

\* C27: for each configuration key the effective value is that of the
\* DEVSERVER_ environment variable when it is set, else that of the key in
\* the config file when the file has it, else the built-in default; a
\* missing, empty or unreadable file yields the defaults.
Thm_C27_EnvThenFileThenDefault ==
    Loaded =>
        /\ \A k \in IntKeys :
              s_cfg.ints[k] = IF s_env[k] # Unset THEN EnvInt(k)
                              ELSE IF InFile(k) THEN FileInt(k) ELSE DefaultInt(k)
        /\ \A k \in BoolKeys :
              s_cfg.flags[k] = IF s_env[k] # Unset THEN EnvFlag(s_env[k])
                               ELSE IF InFile(k) THEN FileBool(k) ELSE DefaultBool(k)
        /\ \A k \in StrKeys :
              s_cfg.strs[k] = IF s_env[k] # Unset THEN s_env[k]
                              ELSE IF InFile(k) THEN FileStr(k) ELSE DefaultStr(k)
        /\ (s_file.state # "mapping" /\ \A k \in ConfigKeys : s_env[k] = Unset) =>
              /\ \A k \in IntKeys : s_cfg.ints[k] = DefaultInt(k)
              /\ \A k \in BoolKeys : s_cfg.flags[k] = DefaultBool(k)
              /\ \A k \in StrKeys : s_cfg.strs[k] = DefaultStr(k)

\* a file with every key, an environment that sets the worker limit and
\* turns posting off: 10 workers, no posting, the file's expiration interval
Wit_C27_EnvOverridesFileOverridesDefault ==
    /\ Loaded
    /\ s_file.state = "mapping" /\ s_file.keys = ConfigKeys
    /\ s_env["workerLimit"] # Unset /\ s_env["postingEnabled"] = <<"0">>
    /\ s_env["expirationInterval"] = Unset
    /\ s_cfg.ints["workerLimit"] = 10
    /\ s_cfg.flags["postingEnabled"] = FALSE
    /\ s_cfg.ints["expirationInterval"] = 120

IntervalOf(task) == {t.interval : t \in {u \in s_tasks : u.task = task}}

\* C28 (as stated): once started, the worker cap is the configured
\* workerLimit, event posting is the configured postingEnabled, and the two
\* background loops run with the configured intervals.
Orig_C28_StartupAppliesConfiguration ==
    s_pc = "running" =>
        /\ s_settings.worker_limit = s_cfg.ints["workerLimit"]
        /\ s_settings.posting = s_cfg.flags["postingEnabled"]
        /\ IntervalOf("cleanup_expired_devservers") =
              {s_cfg.ints["expirationInterval"]}
        /\ IntervalOf("reconcile_flavors_periodically") =
              {s_cfg.ints["flavorReconciliationInterval"]}

\* C29: the client configuration tries the in-cluster credentials first and
\* the local kubeconfig only when they fail; when both fail on_startup ends
\* with a fatal error and creates no task; with an explicit kubeconfig path
\* only that path is tried, and its failure is an error.
Thm_C29_InClusterThenKubeconfigElseFatal ==
    /\ s_pc \in {"running", "fatal"} =>
          /\ s_tried = IF s_kube.incluster THEN <<"in-cluster">>
                       ELSE <<"in-cluster", "kubeconfig">>
          /\ s_client = IF s_kube.incluster THEN "in-cluster"
                        ELSE IF s_kube.kubeconfig THEN "kubeconfig" ELSE "none"
          /\ (~s_kube.incluster /\ ~s_kube.kubeconfig) => s_pc = "fatal"
    /\ s_pc = "fatal" => s_tasks = {}
    /\ s_lib.result # "none" =>
          IF s_lib.given
          THEN /\ s_lib.tried = <<"path">>
               /\ s_lib.result = IF s_lib.path_ok THEN "kubeconfig" ELSE "error"
          ELSE /\ s_lib.tried = IF s_kube.incluster THEN <<"in-cluster">>
                                ELSE <<"in-cluster", "kubeconfig">>
               /\ s_lib.result = IF s_kube.incluster THEN "in-cluster"
                                 ELSE IF s_kube.kubeconfig THEN "kubeconfig"
                                 ELSE "error"

\* no credentials at all: the operator ended fatally without tasks, and a
\* call with a bad explicit path failed although nothing else was tried
Wit_C29_FatalWithoutTasks ==
    /\ s_pc = "fatal" /\ s_tasks = {}
    /\ s_tried = <<"in-cluster", "kubeconfig">>
    /\ s_lib.given /\ s_lib.result = "error" /\ s_lib.tried = <<"path">>

---------------------------------------------------------------------------
(* Claims about watch and wait_for_status on cluster-scoped resources *)

\* C30 (as stated): wait_for_status on a cluster-scoped resource whose status
\* does not match yet opens a watch and waits; it ends by returning or with
\* a timeout, never with another error of its own.
Orig_C30_ClusterScopedWaitOpensWatch ==
    ~w_namespaced => w_pc # "raised_not_implemented"

---------------------------------------------------------------------------
(* Claims about the DevServerUser reconciler *)

\* objects of the kind in the cluster
UserObjects(kind) == {o \in u_cluster : o.kind = kind}

\* create calls of the kind in the call log
UserCreates(kind) ==
    Cardinality({i \in 1..Len(u_calls) : u_calls[i] = <<"create", kind>>})

\* C31: a reconcile of a DevServerUser with username u that began with none
\* of its objects in the cluster has, when it is done, created the Namespace
\* dev-u, the ServiceAccount u-sa in dev-u, one Role and one RoleBinding in
\* dev-u whose subjects are exactly User u and ServiceAccount u-sa of dev-u,
\* each by one create call, and its result names dev-u.
Thm_C31_UserObjectsCreatedOnce ==
    (u_pc = "done" /\ u_start = {}) =>
        /\ \A k \in UserKinds : UserCreates(k) = 1 /\ Cardinality(UserObjects(k)) = 1
        /\ \A o \in UserObjects("Namespace") : o.name = <<"dev", u_name>>
        /\ \A o \in UserObjects("ServiceAccount") :
              o.name = <<u_name, "sa">> /\ o.namespace = <<"dev", u_name>>
        /\ \A o \in UserObjects("Role") : o.namespace = <<"dev", u_name>>
        /\ \A o \in UserObjects("RoleBinding") :
              /\ o.namespace = <<"dev", u_name>>
              /\ o.subjects =
                   {[kind |-> "User", name |-> <<u_name>>, namespace |-> <<>>],
                    [kind |-> "ServiceAccount", name |-> <<u_name, "sa">>,
                     namespace |-> <<"dev", u_name>>]}
        /\ u_result.namespace = <<"dev", u_name>>

Wit_C31_BobProvisionedFromNothing ==
    /\ u_pc = "done"
    /\ u_start = {}
    /\ u_name = "bob"
    /\ Cardinality(u_cluster) = 4
    /\ Len(u_calls) = 6

---------------------------------------------------------------------------
(* Claims about the timeouts of wait_for_status *)

WaitEnded ==
    w_pc \in {"returned", "raised_timeout", "raised_api", "raised_not_implemented"}

WatchesOpened == Cardinality({i \in 1..Len(w_log) : w_log[i] = "W"})

\* the call is about to open one watch more than this model follows
WatchBudgetSpent ==
    /\ w_pc = "remaining"
    /\ WatchesOpened >= MaxWatches
    /\ RemainingTimeout(w_timeout, w_start, w_now) > 0

\* C32: when every watch stream has ended once its timeout_seconds have
\* passed, the clock advances and the caller keeps iterating, a call of
\* wait_for_status whose timeout lies within the horizon of the clock ends, by
\* a return or an exception, also when the events it got never matched; and
\* it raises TimeoutError only with less than one second of its timeout left.
Thm_C32_WaitForStatusTerminates ==
    /\ (w_pc # "call" /\ w_start + w_timeout <= MaxTime)
          ~> (WaitEnded \/ WatchBudgetSpent)
    /\ [](w_pc = "raised_timeout"
             => RemainingTimeout(w_timeout, w_start, w_now) <= 0)

Wit_C32_NeverMatchingStreamTimedOut ==
    /\ w_pc = "raised_timeout"
    /\ WatchesOpened = 1
    /\ Len(w_recv) >= 2
    /\ \A i \in 1..Len(w_log) : w_log[i] \notin {"E+", "R+"}
    /\ w_now >= w_deadline

\* C37: every watch wait_for_status opens gets a timeout_seconds that is a
\* whole number of seconds, at least 1, and ends no later than the caller's
\* timeout; with a caller timeout below one second no watch is opened.
Thm_C37_WatchTimeoutWithinRemainingTime ==
    /\ [][(w_pc = "remaining" /\ w_pc' = "watching") =>
            /\ (w_deadline' - w_now) % TicksPerSecond = 0
            /\ w_deadline' - w_now >= TicksPerSecond
            /\ w_deadline' <= w_start + w_timeout]_vars
    /\ [](w_timeout < TicksPerSecond => WatchesOpened = 0)

Wit_C37_SecondWatchShorterThanRemainingTime ==
    /\ w_pc = "watching"
    /\ WatchesOpened = 2
    /\ w_deadline < w_start + w_timeout
    /\ w_deadline - w_now >= TicksPerSecond

---------------------------------------------------------------------------
(* Claims about wait_for_ready *)

ReadyEnded == g_pc \in {"returned", "raised_timeout", "raised_api"}

\* C36: wait_for_ready returns normally only after wait_for_status returned
\* on a refresh that showed phase Running and a pod read made after that, and
\* before the timeout counted from the start of the call, showed a non-empty
\* list of container statuses that are all ready; a 404 of the pod read is
\* followed by another turn of the loop and never raised; a turn of the loop
\* that begins with the timeout used up raises TimeoutError, and TimeoutError
\* is never raised with a whole second of the timeout left.
Thm_C36_ReadyAfterRunningAndReadyPod ==
    /\ [](g_pc = "returned" =>
            /\ w_pc = "returned"
            /\ Last(w_log) = "R+"
            /\ "phase" \in DOMAIN w_status /\ w_status["phase"] = "Running"
            /\ g_reads # <<>>
            /\ Last(g_reads).answer.code = 200
            /\ Last(g_reads).answer.statuses # <<>>
            /\ \A i \in 1..Len(Last(g_reads).answer.statuses) :
                  Last(g_reads).answer.statuses[i] = TRUE)
    /\ [](\A i \in 1..Len(g_reads) :
            /\ w_pc = "returned"
            /\ g_reads[i].at - g_start < g_timeout
            /\ g_reads[i].answer.code = 404 =>
                  (i < Len(g_reads) \/ g_pc \in {"sleep", "pod", "raised_timeout"}))
    /\ [](g_pc = "raised_timeout" => w_now - g_start > g_timeout - TicksPerSecond)
    /\ [][(g_pc = "pod" /\ g_pc' # "pod" /\ w_now - g_start >= g_timeout)
             => g_pc' = "raised_timeout"]_vars
    /\ [][(g_pc = "status" /\ w_pc = "yielded" /\ w_now - g_start > g_timeout
             /\ g_pc' # g_pc) => g_pc' = "raised_timeout"]_vars

Wit_C36_ReadyAfterWatchAndMissingPod ==
    /\ g_pc = "returned"
    /\ WatchesOpened >= 1
    /\ Len(g_reads) >= 2
    /\ g_reads[1].answer.code = 404

---------------------------------------------------------------------------
(* Claims about reconciles that follow an interrupted one, about Services   *)
(* and about the deletes of one sweep                                       *)

\* the children a reconcile of the spec has to leave in the cluster
RequiredChildren(spec) ==
    {HostKeySecret, Workload, "headless_service"} \cup ConfigMapIds
       \cup (IF spec.enableSSH THEN {"ssh_service"} ELSE {})

Orig_C35_NoServiceWithoutOptIn ==
    ~r_spec.enableSSH =>
        \A k \in 1..Len(r_writes) : r_writes[k].obj \notin ServiceIds

\* the DevServers a listing at instant now shows as live and past their expiry
FoundExpired(ds, now) ==
    {n \in DSNames : ds[n].st = "live" /\ PastExpiry(ds[n].ttl, ds[n].created, now)}

\* the delete coroutines, whether awaited by a gather or not
TaskIds(tasks) == {[name |-> t.name, at |-> t.at, created |-> t.created] : t \in tasks}

---------------------------------------------------------------------------
(* Claims about the scope of a DevServer and about the names and paths of   *)
(* the volumes of the built workload                                        *)

\* C38: once control has left the with-statement of a wrapper whose __enter__
\* created the DevServer, the object is gone, unless the API refused the
\* delete that __exit__ sent; this includes an __enter__ that failed in
\* wait_for_ready or in sync after the create.
Orig_C38_CreatedResourceDeletedOnLeaving ==
    (c_pc = "out" /\ Len(c_log) >= 2) =>
        \/ ~c_obj
        \/ Last(c_log) = "delete" /\ c_answer \in {"api_error", "exception"}

\* C39: no two volumes of the built pod have the same name.
Orig_C39_VolumeNamesAreDistinct ==
    b_done =>
        \A i \in 1..Len(b_out.volumes), j \in 1..Len(b_out.volumes) :
            i # j => b_out.volumes[i].name # b_out.volumes[j].name

\* C40: no two volume mounts of the main container of the built workload
\* have the same mountPath.
Orig_C40_MountPathsAreDistinct ==
    b_done =>
        \A i \in 1..Len(b_out.mounts), j \in 1..Len(b_out.mounts) :
            i # j => b_out.mounts[i].mountPath # b_out.mounts[j].mountPath

====
